---- MODULE Spec2Model ----
(***************************************************************************)
(* WiseGuard: a TCP proof-of-work admission gate.                          *)
(*                                                                         *)
(* The model follows the Go sources: the accept loop of Server.Run with    *)
(* its admission pipeline, the per-connection handler, the PoW challenge   *)
(* store, and the four per-address limiter maps with their background      *)
(* tasks.  Time is a discrete clock `now`; every duration of the           *)
(* configuration is scaled to a few ticks.                                 *)
(***************************************************************************)
EXTENDS Integers, Sequences, FiniteSets, TLC

VARIABLES
    now,          \* the clock (time.Now), in ticks
    accepted,     \* number of connections the listener has handed out so far
    acc,          \* the accept loop: its position and the slot of the connection in hand
    conns,        \* connection slots: state of each accepted connection
    challenges,   \* pow.service.challenges: nonce -> *Challenge
    timers,       \* the sleeping deletion goroutines of CreateChallenge
    issued,       \* history: the challenges CreateChallenge has returned to a direct caller
    lastVerify,   \* history: the last direct VerifySolution call and its answer
    base,         \* Config.InitialDifficulty of this run
    currentConns, \* Server.currentConns (atomic.Int32)
    activeConns,  \* Server.activeConns (sync.WaitGroup counter)
    difficulty,   \* Server.difficulty (atomic.Uint32)
    failed,       \* FailedAttempts.attempts: addr.String() -> attemptInfo
    tokens,       \* TokenBucket.tokens: key -> bucket
    connections,  \* ConnectionLimiter.connections: ip -> connStats
    limits,       \* IPRateLimiter.limits: ip -> bucket
    overloaded,   \* MemoryMonitor: the last sampled overload flag
    floodPass,    \* history: successful flood-bucket takes per IP at the current tick
    ttlHit,       \* history: IPs whose connection counter was reset or evicted by TTL
    capacity,     \* TokenBucket.capacity
    fillRate,     \* TokenBucket.fillRate, a float64: the fraction num/den tokens per tick
    taken,        \* history: per key and tick, the direct Take calls that returned true
    ctxDone,      \* Server.ctx is cancelled
    listener,     \* Server.listener: "open" or "closed"
    run,          \* Server.Run: "running", "accepting" (inside Accept when ctx was
                  \* cancelled) or "returned"
    shut,         \* the call of Server.Shutdown: position, done channel, its context
    tasks,        \* the background goroutines that have not returned
    stopCh,       \* the stop channels that are closed
    solver,       \* one call of utils.SolvePoW: its context, workers, channels and result
    codec,        \* the last protocol.Marshal / Unmarshal call: input and result
    getters,      \* the calls of TokenBucket.GetTokens in progress, under the read lock
    tickers,      \* the time.Tickers of refillRoutine and cleanupRoutine: when each
                  \* delivers its next tick
    lastCall      \* history: the last direct call of a service or limiter method, its
                  \* arguments and what it returned

vars == <<now, accepted, acc, conns, challenges, timers, issued, lastVerify, base,
          currentConns,
          activeConns, difficulty, failed, tokens, connections, limits,
          overloaded, floodPass, ttlHit, capacity, fillRate, taken,
          ctxDone, listener, run, shut, tasks, stopCh, solver, codec, getters, tickers,
          lastCall>>

\* The flood bucket's configuration and the log of its direct callers.
bucketVars == <<capacity, fillRate, taken, getters, tickers>>

\* Shutdown: the context, the listener, Run, the Shutdown call, the tasks.
shutdownVars == <<ctxDone, listener, run, shut, tasks, stopCh>>

\* The client's solver and the wire codec, called directly.
clientVars == <<solver, codec>>

\* State the accept loop, the handlers and the limiters leave alone.
callVars == <<lastCall>>

ext == <<bucketVars, shutdownVars, clientVars, callVars>>

-----------------------------------------------------------------------------
(* Bounds of the model and the scaled configuration.                       *)

MaxTime == 2            \* the clock runs 0..MaxTime
MaxAccepts == 2         \* connections the listener hands out in one run
NumSlots == 2           \* connections that exist at the same time
MaxSol == 2             \* clients try the solution strings decimal(0..MaxSol)

MaxConnections == 1     \* Config.MaxConnections
MaxInitialDifficulty == 1  \* Config.InitialDifficulty ranges over 0..MaxInitialDifficulty
MaxDifficulty == 2      \* PoWConfig.MaxDifficulty
ShutdownTimeout == 1    \* Config.ShutdownTimeout, the timeout of the context Shutdown is given
NumWorkers == 3         \* runtime.NumCPU()
MaxCandidate == 3       \* the solver's workers try the candidates decimal(0..MaxCandidate)
MaxMessageSize == 11    \* protocol.MaxMessageSize (64 * 1024 in the source), scaled down
ChallengeTTL == 1       \* pow.service.ttl
MaxFailedAttempts == 1  \* ProtectionConfig.MaxFailedAttempts
FailedBlockTime == 1    \* ProtectionConfig.FailedBlockTime
TokenBucketSize == 1    \* ProtectionConfig.TokenBucketSize
TokenFillRate == 1      \* ProtectionConfig.TokenFillRate, tokens per tick
TokenCleanupInterval == 1  \* TokenBucket.cleanupInterval
MaxPerIP == 1           \* ConnectionLimiter.maxPerIP
ConnTTL == 1            \* ConnectionLimiter.ttl
Burst == 1              \* IPRateLimiter.burst
RateWindow == 1         \* the one-minute refill window of IPRateLimiter
RateTTL == 1            \* IPRateLimiter.ttl

None == "none"

Slots == 1..NumSlots

-----------------------------------------------------------------------------
(* Remote addresses.  A net.Addr is a host and a port; addr.String() keeps *)
(* both, extractIP keeps the host only.                                    *)

IPs == {"a", "b"}
Addrs == { [ip |-> "a", port |-> 1], [ip |-> "a", port |-> 2],
           [ip |-> "b", port |-> 1], [ip |-> "b", port |-> 2] }

AddrString(addr) == <<addr.ip, addr.port>>

extractIP(addr) == AddrString(addr)[1]

\* ProtectionConfig.IPWhitelist / IPBlacklist: exact addr.String() forms.
IPWhitelist == {}
IPBlacklist == { <<"b", 1>> }

-----------------------------------------------------------------------------
(* Proof of work.  Strings are sequences of small character codes.         *)

Prefixes == { <<1>>, <<2>> }          \* values generateRandomString yields
Nonces == { <<5>>, <<6>> }
Bogus == <<3>>
Solutions == { <<j>> : j \in 0..MaxSol }   \* decimal(j)

RECURSIVE Digest(_, _)
\* The compression loop: folds the bytes of the input into the state h.
Digest(h, input) ==
    IF input = <<>> THEN h
    ELSE Digest(((h + Head(input)) * (h + Head(input) + 2)) % 256, Tail(input))

\* calculateHash: the lowercase-hex digest of the input, most significant
\* digit first (a two-digit stand-in for the 64 digits of SHA-256).
calculateHash(input) ==
    LET h == Digest(30, input) IN << h \div 16, h % 16 >>

\* validateDifficulty: strings.HasPrefix(hash, strings.Repeat("0", difficulty)).
validateDifficulty(hash, d) ==
    /\ d <= Len(hash)
    /\ \A i \in 1..d : hash[i] = 0

\* protocol.SolutionPayload values a client may send.
Payloads == [prefix : Prefixes \cup {Bogus}, solution : Solutions, nonce : Nonces \cup {Bogus}]

-----------------------------------------------------------------------------
(* Go maps: functions whose domain is the set of keys present.             *)

EmptyMap == [k \in {} |-> 0]

Put(m, k, v) == [x \in (DOMAIN m) \cup {k} |-> IF x = k THEN v ELSE m[x]]

Del(m, k) == [x \in (DOMAIN m) \ {k} |-> m[x]]

Min(x, y) == IF x < y THEN x ELSE y

\* The zero time.Time: further in the past than any duration of the model.
ZeroTime == 0 - 2 * (MaxTime + 2)

-----------------------------------------------------------------------------
(* pow.service                                                             *)

\* Variant of NewChallenge whose challenge expires at once.
NewChallengeNoTTL(prefix, d, nonce, t) ==
    [prefix |-> prefix, difficulty |-> d, nonce |-> nonce, expiresAt |-> t]

\* service.CreateChallenge, the record it builds for a difficulty > 0.
NewChallenge(prefix, d, nonce, t) ==
    [prefix |-> prefix, difficulty |-> d, nonce |-> nonce, expiresAt |-> t + ChallengeTTL]

\* Variant of VerifySolution that accepts any prefix for a stored nonce.
VerifySolutionAnyPrefix(store, challenge, solution, t) ==
    IF solution.nonce \notin DOMAIN store THEN FALSE
    ELSE LET ch == store[solution.nonce] IN
         IF t > ch.expiresAt THEN FALSE
         ELSE validateDifficulty(calculateHash(solution.prefix \o solution.solution),
                                 ch.difficulty)

\* Variant of VerifySolution that trusts the deletion goroutine and never
\* looks at expiresAt.
VerifySolutionNoExpiry(store, challenge, solution, t) ==
    IF solution.nonce \notin DOMAIN store THEN FALSE
    ELSE LET ch == store[solution.nonce] IN
         IF ch.prefix # solution.prefix THEN FALSE
         ELSE validateDifficulty(calculateHash(solution.prefix \o solution.solution),
                                 ch.difficulty)

\* service.VerifySolution against the store `store` at time t.  The challenge
\* argument of the Go method is never read by its body.
VerifySolution(store, challenge, solution, t) ==
    IF solution.nonce \notin DOMAIN store THEN FALSE
    ELSE LET ch == store[solution.nonce] IN
         IF ch.prefix # solution.prefix THEN FALSE
         ELSE IF t > ch.expiresAt THEN FALSE
         ELSE validateDifficulty(calculateHash(solution.prefix \o solution.solution),
                                 ch.difficulty)

-----------------------------------------------------------------------------
(* protection.IPFilter                                                     *)

\* NewIPFilter: the two slices become the key sets of two maps to true.
NewIPFilter(whitelist, blacklist) == [whitelist |-> whitelist, blacklist |-> blacklist]

\* Variant of IsAllowed that consults the blacklist whatever the whitelist.
IsAllowedBlacklistFirst(f, addr) ==
    IF AddrString(addr) \in f.blacklist THEN FALSE
    ELSE IF f.whitelist # {} THEN AddrString(addr) \in f.whitelist
    ELSE TRUE

\* (*IPFilter).IsAllowed on the filter f: keyed by addr.String().
IsAllowed(f, addr) ==
    IF f.whitelist # {} THEN AddrString(addr) \in f.whitelist
    ELSE AddrString(addr) \notin f.blacklist

\* IPFilter.IsAllowed on the filter of the configuration.
IPFilterIsAllowed(addr) == IsAllowed(NewIPFilter(IPWhitelist, IPBlacklist), addr)

-----------------------------------------------------------------------------
(* protection.FailedAttempts: attempts keyed by addr.String().             *)

\* FailedAttempts.RegisterFailure: the attempts map after the call.
RegisterFailure(f, addr, t) ==
    LET ip == AddrString(addr)
        info == IF ip \in DOMAIN f THEN f[ip]
                ELSE [count |-> 0, lastFail |-> ZeroTime, blockedAt |-> ZeroTime]
        count == info.count + 1
    IN Put(f, ip, [count |-> count,
                   lastFail |-> t,
                   blockedAt |-> IF count >= MaxFailedAttempts THEN t ELSE info.blockedAt])

\* Variant of IsBlocked that still blocks at the instant the block time has
\* elapsed.
IsBlockedInclusive(f, addr, t) ==
    LET ip == AddrString(addr) IN
    IF ip \notin DOMAIN f THEN [blocked |-> FALSE, attempts |-> f]
    ELSE IF f[ip].count >= MaxFailedAttempts /\ t - f[ip].blockedAt <= FailedBlockTime
         THEN [blocked |-> TRUE, attempts |-> f]
    ELSE IF t - f[ip].lastFail > FailedBlockTime
         THEN [blocked |-> FALSE, attempts |-> Del(f, ip)]
    ELSE [blocked |-> FALSE, attempts |-> f]

\* FailedAttempts.IsBlocked: the answer, and the map after the call (the
\* stale entry is deleted inside the query).
IsBlocked(f, addr, t) ==
    LET ip == AddrString(addr) IN
    IF ip \notin DOMAIN f THEN [blocked |-> FALSE, attempts |-> f]
    ELSE IF f[ip].count >= MaxFailedAttempts /\ t - f[ip].blockedAt < FailedBlockTime
         THEN [blocked |-> TRUE, attempts |-> f]
    ELSE IF t - f[ip].lastFail > FailedBlockTime
         THEN [blocked |-> FALSE, attempts |-> Del(f, ip)]
    ELSE [blocked |-> FALSE, attempts |-> f]

\* FailedAttempts.cleanup, one tick of its ticker.
FailedCleanup(f, t) ==
    LET gone == { ip \in DOMAIN f :
                    \/ f[ip].count >= MaxFailedAttempts /\ t - f[ip].blockedAt > FailedBlockTime
                    \/ t - f[ip].lastFail > FailedBlockTime }
    IN [ip \in (DOMAIN f) \ gone |-> f[ip]]

\* FailedAttempts.GetFailureCount
GetFailureCount(f, addr) ==
    IF AddrString(addr) \in DOMAIN f THEN f[AddrString(addr)].count ELSE 0

-----------------------------------------------------------------------------
(* protection.TokenBucket: the flood bucket.                               *)

\* Variant of refillBucket that adds the new tokens without the cap.
refillBucketUncapped(b, t) ==
    LET elapsed == t - b.lastUpdate
        newTokens == (elapsed * fillRate.num) \div fillRate.den
    IN IF newTokens > 0
       THEN [tokens |-> b.tokens + newTokens, lastUpdate |-> t]
       ELSE b

\* TokenBucket.refillBucket
refillBucket(b, t) ==
    LET elapsed == t - b.lastUpdate
        newTokens == (elapsed * fillRate.num) \div fillRate.den
    IN IF newTokens > 0
       THEN [tokens |-> Min(b.tokens + newTokens, capacity), lastUpdate |-> t]
       ELSE b

\* TokenBucket.refillAll
refillAll(tk, t) == [k \in DOMAIN tk |-> refillBucket(tk[k], t)]

\* TokenBucket.cleanup
TokenCleanup(tk, t) ==
    LET gone == { k \in DOMAIN tk : t - tk[k].lastUpdate > TokenCleanupInterval }
    IN [k \in (DOMAIN tk) \ gone |-> tk[k]]

\* Variant of Take whose new bucket starts from the zero value of its count.
TakeFromEmpty(tk, key, t) ==
    LET b0 == IF key \in DOMAIN tk THEN tk[key]
              ELSE [tokens |-> 0, lastUpdate |-> t]
        b == refillBucket(b0, t)
    IN IF b.tokens > 0
       THEN [ok |-> TRUE, tokens |-> Put(tk, key, [b EXCEPT !.tokens = b.tokens - 1])]
       ELSE [ok |-> FALSE, tokens |-> Put(tk, key, b)]

\* TokenBucket.Take(key): the answer and the map after the call.
Take(tk, key, t) ==
    LET b0 == IF key \in DOMAIN tk THEN tk[key]
              ELSE [tokens |-> capacity, lastUpdate |-> t]
        b == refillBucket(b0, t)
    IN IF b.tokens > 0
       THEN [ok |-> TRUE, tokens |-> Put(tk, key, [b EXCEPT !.tokens = b.tokens - 1])]
       ELSE [ok |-> FALSE, tokens |-> Put(tk, key, b)]

\* The log of direct Take calls before the first call.
NoneTaken == [ip \in IPs |-> [t \in 0..MaxTime |-> 0]]

\* The key Protection.IsAllowed hands to Take for a remote address.
FloodKey(addr) == AddrString(addr)

-----------------------------------------------------------------------------
(* ratelimit.ConnectionLimiter: keyed by extractIP(addr).                  *)

\* Variant of AllowConnection whose cap test is off by one (> for >=).
ConnectionLimiterAllowOneMore(cn, addr, t) ==
    LET ip == extractIP(addr)
        stats0 == IF ip \in DOMAIN cn THEN cn[ip] ELSE [count |-> 0, lastReset |-> t]
        expired == t - stats0.lastReset > ConnTTL
        stats == IF expired THEN [count |-> 0, lastReset |-> t] ELSE stats0
    IN IF stats.count > MaxPerIP
       THEN [ok |-> FALSE, connections |-> cn, reset |-> FALSE]
       ELSE [ok |-> TRUE,
             connections |-> Put(cn, ip, [stats EXCEPT !.count = stats.count + 1]),
             reset |-> expired /\ stats0.count > 0]

\* ConnectionLimiter.AllowConnection: the answer, the map after the call and
\* whether the TTL reset discarded a non-zero count.
ConnectionLimiterAllowConnection(cn, addr, t) ==
    LET ip == extractIP(addr)
        stats0 == IF ip \in DOMAIN cn THEN cn[ip] ELSE [count |-> 0, lastReset |-> t]
        expired == t - stats0.lastReset > ConnTTL
        stats == IF expired THEN [count |-> 0, lastReset |-> t] ELSE stats0
    IN IF stats.count >= MaxPerIP
       THEN [ok |-> FALSE, connections |-> cn, reset |-> FALSE]
       ELSE [ok |-> TRUE,
             connections |-> Put(cn, ip, [stats EXCEPT !.count = stats.count + 1]),
             reset |-> expired /\ stats0.count > 0]

\* Variant of RemoveConnection that decrements and stores whatever it finds.
RemoveConnectionAlwaysStore(cn, addr) ==
    LET ip == extractIP(addr)
        stats == IF ip \in DOMAIN cn THEN cn[ip] ELSE [count |-> 0, lastReset |-> ZeroTime]
    IN Put(cn, ip, [stats EXCEPT !.count = stats.count - 1])

\* ConnectionLimiter.RemoveConnection
RemoveConnection(cn, addr) ==
    LET ip == extractIP(addr) IN
    IF ip \notin DOMAIN cn THEN cn
    ELSE IF cn[ip].count - 1 <= 0 THEN Del(cn, ip)
    ELSE Put(cn, ip, [cn[ip] EXCEPT !.count = cn[ip].count - 1])

\* ConnectionLimiter.cleanup: the entries it evicts.
ConnectionLimiterStale(cn, t) == { ip \in DOMAIN cn : t - cn[ip].lastReset > ConnTTL }

ConnectionLimiterCleanup(cn, t) ==
    [ip \in (DOMAIN cn) \ ConnectionLimiterStale(cn, t) |-> cn[ip]]

-----------------------------------------------------------------------------
(* ratelimit.IPRateLimiter: keyed by extractIP(addr).                      *)

\* Variant of AllowConnection that never looks at the blocked flag.
IPRateLimiterAllowBlocked(lm, addr, t) ==
    LET ip == extractIP(addr)
        b0 == IF ip \in DOMAIN lm THEN lm[ip]
              ELSE [tokens |-> Burst, lastReset |-> t, blocked |-> FALSE, attempts |-> 0]
        b == IF t - b0.lastReset > RateWindow
             THEN [b0 EXCEPT !.tokens = Burst, !.lastReset = t]
             ELSE b0
    IN IF b.tokens > 0
       THEN [ok |-> TRUE, limits |-> Put(lm, ip, [b EXCEPT !.tokens = b.tokens - 1])]
       ELSE [ok |-> FALSE,
             limits |-> Put(lm, ip, [b EXCEPT !.attempts = b.attempts + 1,
                                              !.blocked = b.attempts + 1 > Burst * 2])]

\* Variant of AllowConnection that blocks as soon as attempts reaches twice
\* the burst.
IPRateLimiterAllowBlockEarly(lm, addr, t) ==
    LET ip == extractIP(addr)
        b0 == IF ip \in DOMAIN lm THEN lm[ip]
              ELSE [tokens |-> Burst, lastReset |-> t, blocked |-> FALSE, attempts |-> 0]
        b == IF t - b0.lastReset > RateWindow
             THEN [b0 EXCEPT !.tokens = Burst, !.lastReset = t]
             ELSE b0
    IN IF b0.blocked THEN [ok |-> FALSE, limits |-> Put(lm, ip, b0)]
       ELSE IF b.tokens > 0
            THEN [ok |-> TRUE, limits |-> Put(lm, ip, [b EXCEPT !.tokens = b.tokens - 1])]
       ELSE [ok |-> FALSE,
             limits |-> Put(lm, ip, [b EXCEPT !.attempts = b.attempts + 1,
                                              !.blocked = b.attempts + 1 >= Burst * 2])]

\* IPRateLimiter.AllowConnection: the answer and the map after the call.
IPRateLimiterAllowConnection(lm, addr, t) ==
    LET ip == extractIP(addr)
        b0 == IF ip \in DOMAIN lm THEN lm[ip]
              ELSE [tokens |-> Burst, lastReset |-> t, blocked |-> FALSE, attempts |-> 0]
        b == IF t - b0.lastReset > RateWindow
             THEN [b0 EXCEPT !.tokens = Burst, !.lastReset = t]
             ELSE b0
    IN IF b0.blocked THEN [ok |-> FALSE, limits |-> Put(lm, ip, b0)]
       ELSE IF b.tokens > 0
            THEN [ok |-> TRUE, limits |-> Put(lm, ip, [b EXCEPT !.tokens = b.tokens - 1])]
       ELSE [ok |-> FALSE,
             limits |-> Put(lm, ip, [b EXCEPT !.attempts = b.attempts + 1,
                                              !.blocked = b.attempts + 1 > Burst * 2])]

\* IPRateLimiter.cleanup
IPRateLimiterCleanup(lm, t) ==
    [ip \in { i \in DOMAIN lm : ~(t - lm[i].lastReset > RateTTL) } |-> lm[ip]]

-----------------------------------------------------------------------------
(* protection.Protection                                                   *)

\* Protection.IsAllowed: the error it returns ("nil" when allowed) and the
\* failed-attempts and flood-bucket maps after the call.
ProtectionIsAllowed(addr, f, tk, ov, t) ==
    LET fb == IsBlocked(f, addr, t)
        tr == Take(tk, FloodKey(addr), t)
    IN IF ~IPFilterIsAllowed(addr)
       THEN [err |-> "ip is blocked", attempts |-> f, tokens |-> tk]
       ELSE IF fb.blocked
       THEN [err |-> "too many failed attempts", attempts |-> fb.attempts, tokens |-> tk]
       ELSE IF ov
       THEN [err |-> "server is overloaded", attempts |-> fb.attempts, tokens |-> tk]
       ELSE IF ~tr.ok
       THEN [err |-> "too many requests", attempts |-> fb.attempts, tokens |-> tr.tokens]
       ELSE [err |-> "nil", attempts |-> fb.attempts, tokens |-> tr.tokens]

\* Protection.ProtectedConn: the error it returns ("nil" when the connection
\* is wrapped by the slow-read protector) and the failed-attempts map after it.
ProtectedConn(addr, f, ov, t) ==
    LET fb == IsBlocked(f, addr, t)
    IN IF ~IPFilterIsAllowed(addr) THEN [err |-> "ip is blocked", attempts |-> f]
       ELSE IF ov THEN [err |-> "server is overloaded", attempts |-> f]
       ELSE IF fb.blocked THEN [err |-> "too many failed attempts", attempts |-> fb.attempts]
       ELSE [err |-> "nil", attempts |-> fb.attempts]

-----------------------------------------------------------------------------
(* protection.SlowRequestProtector                                         *)

MinReadRate == 6        \* ProtectionConfig.MinReadRate, bytes per tick

\* SlowRequestProtector.Protect: the wrapper made at time t.
Protect(t) == [readBytes |-> 0, startTime |-> t]

\* protectedConn.Read when the socket's Read hands back n bytes and err: the
\* wrapper afterwards and what the caller gets.
ProtectedRead(p, n, err, t) ==
    LET readBytes == p.readBytes + n
        elapsed == t - p.startTime
    IN [p |-> [p EXCEPT !.readBytes = readBytes],
        n |-> n,
        err |-> IF elapsed > 0 /\ readBytes < MinReadRate * elapsed
                THEN "slow connection" ELSE err]

-----------------------------------------------------------------------------
(* Connections.                                                            *)

HeaderSize == 8         \* protocol.HeaderSize

\* Bytes of the frame that carries a SolutionPayload: the header and one byte
\* for each character of the three strings.
SolutionFrameLen(solution) ==
    HeaderSize + Len(solution.prefix) + Len(solution.solution) + Len(solution.nonce)

AnyAddr == [ip |-> "a", port |-> 1]

\* A slot no connection uses.
FreeConn ==
    [pc |-> "free", addr |-> AnyAddr, frames |-> <<>>, chal |-> <<>>,
     verified |-> "none", bound |-> FALSE, err |-> "nil", reason |-> None, used |-> {},
     regs |-> 0, at |-> 0, wrap |-> <<>>, rd |-> 0]

\* What a socket write or read can end with: success, a transport error
\* (EOF, reset, deadline), or net.ErrClosed.
IOErrors == {"other", "closed"}
IOOutcomes == {"nil"} \cup IOErrors

\* Server.sendMessage called with a frame: the frame is handed to conn.Write.
Send(conn, frame) == [conn EXCEPT !.frames = Append(@, frame)]

\* Variant of RejectConn that tells the client why it is turned away.
RejectConnWithError(conn, reason) ==
    [Send(conn, reason) EXCEPT !.pc = "closed", !.reason = reason, !.addr = AnyAddr]

\* Server.Run, a rejecting branch: log the reason, conn.Close(), continue.
RejectConn(conn, reason) == [conn EXCEPT !.pc = "closed", !.reason = reason, !.addr = AnyAddr]

\* The background goroutines: started by Protection.Start (memory monitor,
\* bucket refill and cleanup), by the constructors of FailedAttempts,
\* ConnectionLimiter and IPRateLimiter, and by Run (adjustDifficulty).
Tasks == {"memory", "refill", "tokenCleanup", "failedCleanup", "connCleanup",
          "rateCleanup", "difficulty"}

\* Server.Shutdown has not been called.
NotShutDown == [pc |-> "idle", done |-> FALSE, expired |-> FALSE, deadline |-> 0,
                inflight |-> 0]

\* No call of SolvePoW is under way.
NotSolving == [pc |-> "idle"]

\* The goroutines that may call TokenBucket.GetTokens, and one that is not
\* inside a call.
Getters == {1, 2}

NotGetting == [pc |-> "idle"]

\* t.mu is free of readers: Lock() can be taken.
NoReader == \A g \in Getters : getters[g].pc = "idle"

InHandler(c) == conns[c].pc \in {"handle", "read", "defer1", "defer2", "defer3"}

Init ==
    /\ now = 0
    /\ accepted = 0
    /\ acc = [pc |-> "accept", c |-> 1]
    /\ conns = [c \in Slots |-> FreeConn]
    /\ challenges = EmptyMap
    /\ timers = {}
    /\ issued = {}
    /\ lastVerify = <<>>
    /\ base \in 0..MaxInitialDifficulty
    /\ currentConns = 0
    /\ activeConns = 0
    /\ difficulty = base
    /\ failed = EmptyMap
    /\ tokens = EmptyMap
    /\ connections = EmptyMap
    /\ limits = EmptyMap
    /\ overloaded = FALSE
    /\ floodPass = [ip \in IPs |-> 0]
    /\ ttlHit = {}
    /\ capacity = TokenBucketSize
    /\ fillRate = [num |-> TokenFillRate, den |-> 1]
    /\ taken = NoneTaken
    /\ ctxDone = FALSE
    /\ listener = "open"
    /\ run = "running"
    /\ shut = NotShutDown
    /\ tasks = Tasks
    /\ stopCh = {}
    /\ solver = NotSolving
    /\ codec = <<>>
    /\ lastCall = <<>>
    /\ getters = [g \in Getters |-> NotGetting]
    /\ tickers = [refill |-> 1, cleanup |-> TokenCleanupInterval]

-----------------------------------------------------------------------------
(* Server.Run: the accept loop.                                            *)

\* listener.Accept() returns a connection from some remote address; no two
\* open connections share a remote host and port.
Accept(c, addr) ==
    /\ acc.pc = "accept"
    /\ listener = "open"
    /\ run = "accepting" \/ (run = "running" /\ ~ctxDone)
    /\ run' = "running"
    /\ accepted < MaxAccepts
    /\ conns[c].pc \in {"free", "closed"}
    /\ \A d \in Slots : d < c => conns[d].pc \notin {"free", "closed"}
    /\ \A d \in Slots : conns[d].pc \notin {"free", "closed"} => conns[d].addr # addr
    /\ accepted' = accepted + 1
    /\ conns' = [conns EXCEPT ![c] = [FreeConn EXCEPT !.pc = "admit", !.addr = addr]]
    /\ acc' = [pc |-> "isAllowed", c |-> c]
    /\ UNCHANGED <<callVars, clientVars, bucketVars, ctxDone, listener, shut, tasks, stopCh, now, challenges, timers, issued, lastVerify, base, currentConns, activeConns, difficulty,
                   failed, tokens, connections, limits, overloaded, floodPass, ttlHit>>

\* s.protection.IsAllowed(conn.RemoteAddr())
CheckIsAllowed ==
    /\ acc.pc = "isAllowed"
    /\ LET c == acc.c
           addr == conns[c].addr
           r == ProtectionIsAllowed(addr, failed, tokens, overloaded, now)
           took == r.err \in {"nil"}
       IN /\ failed' = r.attempts
          /\ tokens' = r.tokens
          /\ floodPass' = IF took
                          THEN [floodPass EXCEPT ![addr.ip] = @ + 1]
                          ELSE floodPass
          /\ IF r.err = "nil"
             THEN /\ conns' = [conns EXCEPT ![c].used = @ \cup {"flood"}]
                  /\ acc' = [acc EXCEPT !.pc = "protectedConn"]
             ELSE /\ conns' = [conns EXCEPT ![c] = RejectConn(@, r.err)]
                  /\ acc' = [acc EXCEPT !.pc = "accept"]
    /\ UNCHANGED <<ext, now, accepted, challenges, timers, issued, lastVerify, base, currentConns, activeConns,
                   difficulty, connections, limits, overloaded, ttlHit>>

\* s.protection.ProtectedConn(conn)
CheckProtectedConn ==
    /\ acc.pc = "protectedConn"
    /\ LET c == acc.c
           r == ProtectedConn(conns[c].addr, failed, overloaded, now)
       IN /\ failed' = r.attempts
          /\ IF r.err = "nil"
             THEN /\ conns' = [conns EXCEPT ![c].wrap = <<Protect(now)>>]
                  /\ acc' = [acc EXCEPT !.pc = "conLimiter"]
             ELSE /\ conns' = [conns EXCEPT ![c] = RejectConn(@, r.err)]
                  /\ acc' = [acc EXCEPT !.pc = "accept"]
    /\ UNCHANGED <<ext, now, accepted, challenges, timers, issued, lastVerify, base, currentConns, activeConns,
                   difficulty, tokens, connections, limits, overloaded, floodPass, ttlHit>>

\* s.conLimiter.AllowConnection(conn.RemoteAddr())
CheckConLimiter ==
    /\ acc.pc = "conLimiter"
    /\ LET c == acc.c
           r == ConnectionLimiterAllowConnection(connections, conns[c].addr, now)
       IN /\ connections' = r.connections
          /\ ttlHit' = IF r.reset THEN ttlHit \cup {conns[c].addr.ip} ELSE ttlHit
          /\ IF r.ok
             THEN /\ conns' = [conns EXCEPT ![c].used = @ \cup {"slot"}]
                  /\ acc' = [acc EXCEPT !.pc = "rateLimiter"]
             ELSE /\ conns' = [conns EXCEPT ![c] = RejectConn(@, "connection limit")]
                  /\ acc' = [acc EXCEPT !.pc = "accept"]
    /\ UNCHANGED <<ext, now, accepted, challenges, timers, issued, lastVerify, base, currentConns, activeConns,
                   difficulty, failed, tokens, limits, overloaded, floodPass>>

\* s.rateLimiter.AllowConnection(conn.RemoteAddr())
CheckRateLimiter ==
    /\ acc.pc = "rateLimiter"
    /\ LET c == acc.c
           r == IPRateLimiterAllowConnection(limits, conns[c].addr, now)
       IN /\ limits' = r.limits
          /\ IF r.ok
             THEN /\ conns' = [conns EXCEPT ![c].used = @ \cup {"rate"}]
                  /\ acc' = [acc EXCEPT !.pc = "maxConns"]
             ELSE /\ conns' = [conns EXCEPT ![c] = RejectConn(@, "rate limit")]
                  /\ acc' = [acc EXCEPT !.pc = "accept"]
    /\ UNCHANGED <<ext, now, accepted, challenges, timers, issued, lastVerify, base, currentConns, activeConns,
                   difficulty, failed, tokens, connections, overloaded, floodPass, ttlHit>>

\* Variant of the guard of the global cap that is off by one (> for >=).
MaxConnectionsExceeded(n) == n > MaxConnections

\* The guard of the global cap: s.currentConns.Load() >= int32(s.cfg.MaxConnections).
MaxConnectionsReached(n) == n >= MaxConnections

\* The global cap check of Server.Run.
CheckMaxConns ==
    /\ acc.pc = "maxConns"
    /\ IF MaxConnectionsReached(currentConns)
       THEN /\ conns' = [conns EXCEPT ![acc.c] = RejectConn(@, "max connections")]
            /\ acc' = [acc EXCEPT !.pc = "accept"]
       ELSE /\ conns' = conns
            /\ acc' = [acc EXCEPT !.pc = "spawn"]
    /\ UNCHANGED <<ext, now, accepted, challenges, timers, issued, lastVerify, base, currentConns, activeConns,
                   difficulty, failed, tokens, connections, limits, overloaded,
                   floodPass, ttlHit>>

\* s.activeConns.Add(1); s.currentConns.Add(1); go func() { ... }()
Spawn ==
    /\ acc.pc = "spawn"
    /\ activeConns' = activeConns + 1
    /\ currentConns' = currentConns + 1
    /\ conns' = [conns EXCEPT ![acc.c].pc = "handle"]
    /\ acc' = [acc EXCEPT !.pc = "accept"]
    /\ UNCHANGED <<ext, now, accepted, challenges, timers, issued, lastVerify, base, difficulty, failed, tokens,
                   connections, limits, overloaded, floodPass, ttlHit>>

-----------------------------------------------------------------------------
(* Server.handleConnection and the handler goroutine of Server.Run.        *)

\* Variant of the handler's load that takes the configured InitialDifficulty
\* whatever the controller has published.
CurrentDifficultyConfigured(d) == base % 256

\* uint8(s.difficulty.Load())
CurrentDifficulty(d) == d % 256

\* The guard of s.protection.RegisterFailure in the handler goroutine:
\* err != nil and !errors.Is(err, net.ErrClosed).
CountsAsFailure(err) == err # "nil" /\ err # "closed"

\* The handler goroutine after handleConnection returned err: register the
\* failure if it is one, and go on to the deferred calls.
Returned(conn, err, f, t) ==
    IF CountsAsFailure(err)
    THEN [conn |-> [conn EXCEPT !.err = err, !.regs = @ + 1, !.pc = "defer1",
                                 !.chal = <<>>, !.at = t],
          attempts |-> RegisterFailure(f, conn.addr, t)]
    ELSE [conn |-> [conn EXCEPT !.err = err, !.pc = "defer1", !.chal = <<>>, !.at = t],
          attempts |-> f]

\* handleConnection: conn.SetDeadline fails and the handler returns its error
\* before any frame.
HandleDeadlineError(c, e) ==
    /\ conns[c].pc = "handle"
    /\ LET r == Returned(conns[c], e, failed, now)
       IN /\ conns' = [conns EXCEPT ![c] = r.conn]
          /\ failed' = r.attempts
    /\ UNCHANGED <<ext, now, accepted, acc, challenges, timers, issued, lastVerify, base, currentConns,
                   activeConns, difficulty, tokens, connections, limits,
                   overloaded, floodPass, ttlHit>>

\* handleConnection up to the first read: load the difficulty, create the
\* challenge (random prefix and nonce) and send it with write outcome w, or
\* send INTERNAL_ERROR when creation fails.
HandleChallenge(c, prefix, nonce, w) ==
    /\ conns[c].pc = "handle"
    /\ LET d == CurrentDifficulty(difficulty)
           ch == NewChallenge(prefix, d, nonce, now)
           sent == IF d = 0 THEN Send(conns[c], "INTERNAL_ERROR")
                   ELSE [Send(conns[c], "Challenge") EXCEPT !.chal = <<ch>>]
           r == Returned(sent, w, failed, now)
       IN /\ IF d = 0
             THEN UNCHANGED <<challenges, timers>>
             ELSE /\ challenges' = Put(challenges, nonce, ch)
                  /\ timers' = timers \cup {[nonce |-> nonce, at |-> now + ChallengeTTL]}
          /\ IF d # 0 /\ w = "nil"
             THEN /\ conns' = [conns EXCEPT ![c] = [sent EXCEPT !.pc = "read"]]
                  /\ failed' = failed
             ELSE /\ conns' = [conns EXCEPT ![c] = r.conn]
                  /\ failed' = r.attempts
    /\ UNCHANGED <<ext, now, accepted, acc, issued, lastVerify, base, currentConns, activeConns, difficulty,
                   tokens, connections, limits, overloaded, floodPass, ttlHit>>

\* readSolution fails: a transport error, a frame of another type, or a
\* payload that is not JSON.
HandleReadError(c, e) ==
    /\ conns[c].pc = "read"
    /\ LET r == Returned(conns[c], e, failed, now)
       IN /\ conns' = [conns EXCEPT ![c] = r.conn]
          /\ failed' = r.attempts
    /\ UNCHANGED <<ext, now, accepted, acc, challenges, timers, issued, lastVerify, base, currentConns,
                   activeConns, difficulty, tokens, connections, limits,
                   overloaded, floodPass, ttlHit>>

\* Variant of Answer that sends the quote whatever the verification said.
AnswerAlwaysQuote(ok) == "Quote"

\* The frame handleConnection answers a verification result with.
Answer(ok) == IF ok THEN "Quote" ELSE "INVALID_SOLUTION"

\* What handleConnection returns after answering: the result of the send
\* (return s.sendError(...) / return s.sendQuote(conn)).
AnswerResult(ok, w) == w

\* readSolution succeeds with the payload `solution`, read from conn (the
\* socket, not the wrapper ProtectedConn returned); VerifySolution; send the
\* Quote or INVALID_SOLUTION with write outcome w.
HandleSolution(c, solution, w) ==
    /\ conns[c].pc = "read"
    /\ LET ok == VerifySolution(challenges, conns[c].chal[1], solution, now)
           sent == [Send(conns[c], Answer(ok)) EXCEPT
                       !.rd = @ + SolutionFrameLen(solution),
                       !.bound = /\ solution.nonce = conns[c].chal[1].nonce
                                 /\ solution.prefix = conns[c].chal[1].prefix,
                       !.verified = IF ok THEN "true" ELSE "false"]
           r == Returned(sent, AnswerResult(ok, w), failed, now)
       IN /\ conns' = [conns EXCEPT ![c] = r.conn]
          /\ failed' = r.attempts
    /\ UNCHANGED <<ext, now, accepted, acc, challenges, timers, issued, lastVerify, base, currentConns,
                   activeConns, difficulty, tokens, connections, limits,
                   overloaded, floodPass, ttlHit>>

\* deferred: s.activeConns.Done()
DeferDone(c) ==
    /\ conns[c].pc = "defer1"
    /\ activeConns' = activeConns - 1
    /\ conns' = [conns EXCEPT ![c] = [FreeConn EXCEPT !.pc = "defer2", !.addr = conns[c].addr]]
    /\ UNCHANGED <<ext, now, accepted, acc, challenges, timers, issued, lastVerify, base, currentConns,
                   difficulty, failed, tokens, connections, limits, overloaded,
                   floodPass, ttlHit>>

\* deferred: s.currentConns.Add(-1)
DeferRelease(c) ==
    /\ conns[c].pc = "defer2"
    /\ currentConns' = currentConns - 1
    /\ conns' = [conns EXCEPT ![c].pc = "defer3"]
    /\ UNCHANGED <<ext, now, accepted, acc, challenges, timers, issued, lastVerify, base, activeConns,
                   difficulty, failed, tokens, connections, limits, overloaded,
                   floodPass, ttlHit>>

\* deferred: s.conLimiter.RemoveConnection(addr); protected.Close(); conn.Close()
DeferClose(c) ==
    /\ conns[c].pc = "defer3"
    /\ connections' = RemoveConnection(connections, conns[c].addr)
    /\ conns' = [conns EXCEPT ![c] = [FreeConn EXCEPT !.pc = "closed"]]
    /\ UNCHANGED <<ext, now, accepted, acc, challenges, timers, issued, lastVerify, base, currentConns,
                   activeConns, difficulty, failed, tokens, limits, overloaded,
                   floodPass, ttlHit>>

-----------------------------------------------------------------------------
(* Background tasks and the clock.                                         *)

Tick ==
    /\ now < MaxTime
    /\ now' = now + 1
    /\ floodPass' = [ip \in IPs |-> 0]
    /\ UNCHANGED <<ext, accepted, acc, conns, challenges, timers, issued, lastVerify, base, currentConns,
                   activeConns, difficulty, failed, tokens, connections, limits,
                   overloaded, ttlHit>>

\* The goroutine of CreateChallenge: time.Sleep(s.ttl); s.challenges.Delete(nonce)
ExpireChallenge(tm) ==
    /\ tm \in timers
    /\ now >= tm.at
    /\ challenges' = Del(challenges, tm.nonce)
    /\ timers' = timers \ {tm}
    /\ UNCHANGED <<ext, now, accepted, acc, conns, issued, lastVerify, base, currentConns, activeConns,
                   difficulty, failed, tokens, connections, limits, overloaded,
                   floodPass, ttlHit>>

\* Variant of the switch of adjustDifficulty whose thresholds are inclusive.
newDifficultyInclusive(n, b, max) ==
    IF n >= (max * 8) \div 10 THEN b + 2
    ELSE IF n >= (max * 5) \div 10 THEN b + 1
    ELSE b

\* The switch of adjustDifficulty: the new difficulty for n live connections,
\* InitialDifficulty b and MaxConnections max.
newDifficulty(n, b, max) ==
    IF n > (max * 8) \div 10 THEN b + 2
    ELSE IF n > (max * 5) \div 10 THEN b + 1
    ELSE b

\* Server.adjustDifficulty: the value one tick of its ticker publishes.
NewDifficulty(n, b) == newDifficulty(n, b, MaxConnections)

AdjustDifficulty ==
    /\ "difficulty" \in tasks
    /\ difficulty' = NewDifficulty(currentConns, base)
    /\ difficulty' # difficulty
    /\ UNCHANGED <<ext, now, accepted, acc, conns, challenges, timers, issued, lastVerify, base, currentConns,
                   activeConns, failed, tokens, connections, limits, overloaded,
                   floodPass, ttlHit>>

\* MemoryMonitor: a periodic sample sets the flag IsOverloaded returns.
MemorySample ==
    /\ "memory" \in tasks
    /\ overloaded' = ~overloaded
    /\ UNCHANGED <<ext, now, accepted, acc, conns, challenges, timers, issued, lastVerify, base, currentConns,
                   activeConns, difficulty, failed, tokens, connections, limits,
                   floodPass, ttlHit>>

\* TokenBucket.refillRoutine, one tick
RefillTick ==
    /\ "refill" \in tasks
    /\ NoReader
    /\ tokens' = refillAll(tokens, now)
    /\ tokens' # tokens
    /\ UNCHANGED <<ext, now, accepted, acc, conns, challenges, timers, issued, lastVerify, base, currentConns,
                   activeConns, difficulty, failed, connections, limits, overloaded,
                   floodPass, ttlHit>>

\* TokenBucket.cleanupRoutine, one tick
TokenCleanupTick ==
    /\ "tokenCleanup" \in tasks
    /\ NoReader
    /\ tokens' = TokenCleanup(tokens, now)
    /\ tokens' # tokens
    /\ UNCHANGED <<ext, now, accepted, acc, conns, challenges, timers, issued, lastVerify, base, currentConns,
                   activeConns, difficulty, failed, connections, limits, overloaded,
                   floodPass, ttlHit>>

\* FailedAttempts.cleanup, one tick
FailedCleanupTick ==
    /\ "failedCleanup" \in tasks
    /\ failed' = FailedCleanup(failed, now)
    /\ failed' # failed
    /\ UNCHANGED <<ext, now, accepted, acc, conns, challenges, timers, issued, lastVerify, base, currentConns,
                   activeConns, difficulty, tokens, connections, limits, overloaded,
                   floodPass, ttlHit>>

\* ConnectionLimiter.periodicCleanup, one tick
ConnectionLimiterCleanupTick ==
    /\ "connCleanup" \in tasks
    /\ connections' = ConnectionLimiterCleanup(connections, now)
    /\ connections' # connections
    /\ ttlHit' = ttlHit \cup ConnectionLimiterStale(connections, now)
    /\ UNCHANGED <<ext, now, accepted, acc, conns, challenges, timers, issued, lastVerify, base, currentConns,
                   activeConns, difficulty, failed, tokens, limits, overloaded, floodPass>>

\* IPRateLimiter.periodicCleanup, one tick
IPRateLimiterCleanupTick ==
    /\ "rateCleanup" \in tasks
    /\ limits' = IPRateLimiterCleanup(limits, now)
    /\ limits' # limits
    /\ UNCHANGED <<ext, now, accepted, acc, conns, challenges, timers, issued, lastVerify, base, currentConns,
                   activeConns, difficulty, failed, tokens, connections, overloaded,
                   floodPass, ttlHit>>

-----------------------------------------------------------------------------
(* Shutdown: cancelling the server's context, Run returning, Server.Shutdown *)
(* and the end of the background goroutines.                                 *)

\* The caller of NewServer cancels the context it passed.  The accept loop is
\* then either before its select (blocked = FALSE) or inside
\* listener.Accept() (blocked = TRUE), where it does not look at the context.
CancelContext(blocked) ==
    /\ ~ctxDone
    /\ ctxDone' = TRUE
    /\ run' = IF run = "running" /\ acc.pc = "accept" /\ blocked THEN "accepting" ELSE run
    /\ UNCHANGED <<callVars, clientVars, bucketVars, listener, shut, tasks, stopCh, now, accepted, acc, conns,
                   challenges, timers, issued, lastVerify, base, currentConns, activeConns,
                   difficulty, failed, tokens, connections, limits, overloaded,
                   floodPass, ttlHit>>

\* MemoryMonitor.Stop ends the monitor's sampling loop.
MemoryMonitorStopped == "memory" \in stopCh

\* Run returns nil: its select finds ctx.Done(), or Accept fails with
\* net.ErrClosed.  The deferred s.protection.Stop() stops the memory monitor
\* and closes the stop channel of the token bucket.
RunReturn ==
    /\ acc.pc = "accept"
    /\ run # "returned"
    /\ (run = "running" /\ ctxDone) \/ listener = "closed"
    /\ run' = "returned"
    /\ stopCh' = stopCh \cup {"memory", "tokens"}
    /\ UNCHANGED <<callVars, clientVars, bucketVars, ctxDone, listener, shut, tasks, now, accepted, acc, conns,
                   challenges, timers, issued, lastVerify, base, currentConns, activeConns,
                   difficulty, failed, tokens, connections, limits, overloaded,
                   floodPass, ttlHit>>

\* Server.Shutdown(ctx) up to its select: s.cancel is nil (nothing sets it),
\* the listener is closed, the goroutine that waits for activeConns is started.
ShutdownCall ==
    /\ shut.pc = "idle"
    /\ listener' = "closed"
    /\ shut' = [shut EXCEPT !.pc = "select", !.deadline = now + ShutdownTimeout]
    /\ UNCHANGED <<callVars, clientVars, bucketVars, ctxDone, run, tasks, stopCh, now, accepted, acc, conns,
                   challenges, timers, issued, lastVerify, base, currentConns, activeConns,
                   difficulty, failed, tokens, connections, limits, overloaded,
                   floodPass, ttlHit>>

\* The goroutine of Shutdown: s.activeConns.Wait() returns, close(done).
WaiterDone ==
    /\ shut.pc = "select"
    /\ ~shut.done
    /\ activeConns = 0
    /\ shut' = [shut EXCEPT !.done = TRUE]
    /\ UNCHANGED <<callVars, clientVars, bucketVars, ctxDone, listener, run, tasks, stopCh, now, accepted, acc,
                   conns, challenges, timers, issued, lastVerify, base, currentConns,
                   activeConns, difficulty, failed, tokens, connections, limits,
                   overloaded, floodPass, ttlHit>>

\* The timeout of the context handed to Shutdown passes.
ShutdownExpire ==
    /\ shut.pc = "select"
    /\ ~shut.expired
    /\ now >= shut.deadline
    /\ shut' = [shut EXCEPT !.expired = TRUE]
    /\ UNCHANGED <<callVars, clientVars, bucketVars, ctxDone, listener, run, tasks, stopCh, now, accepted, acc,
                   conns, challenges, timers, issued, lastVerify, base, currentConns,
                   activeConns, difficulty, failed, tokens, connections, limits,
                   overloaded, floodPass, ttlHit>>

\* The select of Shutdown takes a ready case: done (return nil) or ctx.Done()
\* (return ctx.Err()).  The history keeps how many handlers were inside
\* handleConnection at that moment.
ShutdownReturn(result) ==
    /\ shut.pc = "select"
    /\ \/ result = "nil" /\ shut.done
       \/ result = "error" /\ shut.expired
    /\ shut' = [shut EXCEPT !.pc = result,
                            !.inflight = Cardinality({ c \in Slots :
                                             conns[c].pc \in {"handle", "read"} })]
    /\ UNCHANGED <<callVars, clientVars, bucketVars, ctxDone, listener, run, tasks, stopCh, now, accepted, acc,
                   conns, challenges, timers, issued, lastVerify, base, currentConns,
                   activeConns, difficulty, failed, tokens, connections, limits,
                   overloaded, floodPass, ttlHit>>

\* What makes the loop of a background goroutine return: the stop channel of
\* its owner for the bucket routines and FailedAttempts.cleanup, the server's
\* context for adjustDifficulty; the `for range ticker.C` loops of the two
\* ratelimit cleanups have no exit.
StopSignal(t) ==
    CASE t = "memory" -> MemoryMonitorStopped
      [] t \in {"refill", "tokenCleanup"} -> "tokens" \in stopCh
      [] t = "failedCleanup" -> "failed" \in stopCh
      [] t = "difficulty" -> ctxDone
      [] OTHER -> FALSE

\* A background goroutine sees its stop signal and returns.
TaskExit(t) ==
    /\ t \in tasks
    /\ StopSignal(t)
    /\ tasks' = tasks \ {t}
    /\ UNCHANGED <<callVars, clientVars, bucketVars, ctxDone, listener, run, shut, stopCh, now, accepted, acc,
                   conns, challenges, timers, issued, lastVerify, base, currentConns,
                   activeConns, difficulty, failed, tokens, connections, limits,
                   overloaded, floodPass, ttlHit>>

-----------------------------------------------------------------------------
(* pow.Service called directly, as its tests do.                           *)

MaxIssued == 1   \* challenges a direct caller creates in one run

\* s.CreateChallenge(d) with the random strings prefix and nonce.
ServiceCreateChallenge(d, prefix, nonce) ==
    /\ Cardinality(issued) < MaxIssued
    /\ IF d = 0
       THEN UNCHANGED <<challenges, timers, issued>>
       ELSE LET ch == NewChallenge(prefix, d, nonce, now) IN
            /\ challenges' = Put(challenges, nonce, ch)
            /\ timers' = timers \cup {[nonce |-> nonce, at |-> now + ChallengeTTL]}
            /\ issued' = issued \cup {ch}
    /\ lastVerify' = <<>>
    /\ lastCall' = << [fn |-> "CreateChallenge", difficulty |-> d, at |-> now,
                       challenge |-> IF d = 0 THEN <<>>
                                     ELSE << NewChallenge(prefix, d, nonce, now) >>,
                       err |-> IF d = 0 THEN "difficulty must be greater than 0" ELSE "nil"] >>
    /\ UNCHANGED <<bucketVars, shutdownVars, clientVars, now, accepted, acc, conns, base,
                   currentConns, activeConns, difficulty,
                   failed, tokens, connections, limits, overloaded, floodPass, ttlHit>>

\* The history record of one direct VerifySolution call: the answer given by
\* `ok`, and what was true of the call when it was made: whether it came after
\* challenge.ExpiresAt, whether the payload carries the nonce and the prefix of
\* the challenge, whether its hash meets the difficulty, whether the record
\* was still stored, whether the nonce was issued once only, the payload, the
\* record the store held for the payload's nonce, and whether the call before
\* it answered true to the same payload.
VerifyRecord(ok, challenge, solution) ==
    [ok |-> ok,
     late |-> now > challenge.expiresAt,
     named |-> solution.nonce = challenge.nonce,
     prefixed |-> solution.prefix = challenge.prefix,
     sufficient |-> validateDifficulty(
                        calculateHash(solution.prefix \o solution.solution),
                        challenge.difficulty),
     stored |-> /\ challenge.nonce \in DOMAIN challenges
                /\ challenges[challenge.nonce] = challenge,
     unique |-> \A d \in issued : d.nonce = challenge.nonce => d = challenge,
     solution |-> solution,
     record |-> IF solution.nonce \in DOMAIN challenges
                THEN << challenges[solution.nonce] >> ELSE << >>,
     replay |-> /\ lastVerify # << >>
                /\ lastVerify[1].ok
                /\ lastVerify[1].solution = solution]

\* Variant of the direct VerifySolution call that consumes the challenge it
\* verified: a true answer deletes the record of the payload's nonce.
ServiceVerifySolutionOnce(challenge, solution) ==
    /\ challenge \in issued
    /\ lastVerify' =
          << VerifyRecord(VerifySolution(challenges, challenge, solution, now),
                          challenge, solution) >>
    /\ challenges' = IF VerifySolution(challenges, challenge, solution, now)
                     THEN Del(challenges, solution.nonce) ELSE challenges
    /\ UNCHANGED <<ext, now, accepted, acc, conns, timers, issued, base,
                   currentConns, activeConns, difficulty, failed, tokens, connections,
                   limits, overloaded, floodPass, ttlHit>>

\* s.VerifySolution(challenge, solution) for a challenge the caller holds: the
\* method reads the store, the clock and its solution argument and writes
\* nothing.
ServiceVerifySolution(challenge, solution) ==
    /\ challenge \in issued
    /\ lastVerify' =
          << VerifyRecord(VerifySolution(challenges, challenge, solution, now),
                          challenge, solution) >>
    /\ UNCHANGED <<ext, now, accepted, acc, conns, challenges, timers, issued, base,
                   currentConns, activeConns, difficulty, failed, tokens, connections,
                   limits, overloaded, floodPass, ttlHit>>

-----------------------------------------------------------------------------
(* utils.SolvePoW, the client's solver.                                    *)

\* utils.CalculateHash
CalculateHash(input) ==
    LET h == Digest(30, input) IN << h \div 16, h % 16 >>

\* Variant of ValidateHashDifficulty that lets one leading digit go unchecked.
ValidateHashDifficultyButOne(hash, d) ==
    /\ d <= Len(hash)
    /\ \A i \in 1..(d - 1) : hash[i] = 0

\* utils.ValidateHashDifficulty
ValidateHashDifficulty(hash, d) ==
    /\ d <= Len(hash)
    /\ \A i \in 1..d : hash[i] = 0

RECURSIVE Decimal(_)
\* fmt.Sprintf("%d", j) for j >= 0: the digits of j, most significant first.
Decimal(j) == IF j < 10 THEN <<j>> ELSE Decimal(j \div 10) \o <<j % 10>>

Workers == 0..(NumWorkers - 1)

\* SolvePoW(ctx, c.prefix, c.difficulty) is called for a challenge the client
\* was sent; the context may be cancelled already.  The workers start at
\* j = workerNum, both channels are empty and open.
SolvePoW(c, cancelled) ==
    /\ solver.pc = "idle"
    /\ c \in issued
    /\ solver' = [pc |-> "running", chal |-> c, cancelled |-> cancelled,
                  delivered |-> FALSE, early |-> cancelled,
                  workers |-> [k \in Workers |-> [pc |-> "loop", j |-> k]],
                  resultCh |-> <<>>, closed |-> 0, result |-> <<>>]
    /\ UNCHANGED <<callVars, bucketVars, shutdownVars, codec, now, accepted, acc, conns, challenges,
                   timers, issued, lastVerify, base, currentConns, activeConns, difficulty,
                   failed, tokens, connections, limits, overloaded, floodPass, ttlHit>>

\* The context of the call is cancelled.  The history keeps whether this
\* happened before a worker put a solution into resultCh.
SolverCancel ==
    /\ solver.pc \in {"running", "returned"}
    /\ ~solver.cancelled
    /\ solver' = [solver EXCEPT !.cancelled = TRUE, !.early = ~solver.delivered]
    /\ UNCHANGED <<callVars, bucketVars, shutdownVars, codec, now, accepted, acc, conns, challenges,
                   timers, issued, lastVerify, base, currentConns, activeConns, difficulty,
                   failed, tokens, connections, limits, overloaded, floodPass, ttlHit>>

\* One iteration of worker k: return on ctx.Done(), else hash the candidate
\* decimal(j) and either go on to send it or advance j by the number of
\* workers.  Candidates beyond decimal(MaxCandidate) are outside the model.
SolverWorker(k) ==
    /\ solver.pc \in {"running", "returned"}
    /\ solver.workers[k].pc = "loop"
    /\ LET w == solver.workers[k]
           hash == CalculateHash(solver.chal.prefix \o Decimal(w.j))
       IN IF solver.cancelled
          THEN solver' = [solver EXCEPT !.workers[k].pc = "done"]
          ELSE /\ w.j <= MaxCandidate
               /\ IF ValidateHashDifficulty(hash, solver.chal.difficulty)
                  THEN solver' = [solver EXCEPT !.workers[k].pc = "send"]
                  ELSE solver' = [solver EXCEPT !.workers[k].j = w.j + NumWorkers]
    /\ UNCHANGED <<callVars, bucketVars, shutdownVars, codec, now, accepted, acc, conns, challenges,
                   timers, issued, lastVerify, base, currentConns, activeConns, difficulty,
                   failed, tokens, connections, limits, overloaded, floodPass, ttlHit>>

\* The inner select of worker k: send the solution if resultCh (capacity 1)
\* has room, or return on ctx.Done(); either when both are ready.
SolverWorkerSend(k, onDone) ==
    /\ solver.pc \in {"running", "returned"}
    /\ solver.workers[k].pc = "send"
    /\ IF onDone
       THEN /\ solver.cancelled
            /\ solver' = [solver EXCEPT !.workers[k].pc = "done"]
       ELSE /\ Len(solver.resultCh) < 1
            /\ solver' = [solver EXCEPT
                              !.workers[k].pc = "done",
                              !.delivered = TRUE,
                              !.resultCh = Append(@, Decimal(solver.workers[k].j))]
    /\ UNCHANGED <<callVars, bucketVars, shutdownVars, codec, now, accepted, acc, conns, challenges,
                   timers, issued, lastVerify, base, currentConns, activeConns, difficulty,
                   failed, tokens, connections, limits, overloaded, floodPass, ttlHit>>

\* The closing goroutine after wg.Wait(): close(resultCh), then close(errorCh).
SolverClose ==
    /\ solver.pc \in {"running", "returned"}
    /\ \A k \in Workers : solver.workers[k].pc = "done"
    /\ solver.closed < 2
    /\ solver' = [solver EXCEPT !.closed = @ + 1]
    /\ UNCHANGED <<callVars, bucketVars, shutdownVars, codec, now, accepted, acc, conns, challenges,
                   timers, issued, lastVerify, base, currentConns, activeConns, difficulty,
                   failed, tokens, connections, limits, overloaded, floodPass, ttlHit>>

\* The select of SolvePoW takes a ready case: a value from resultCh, resultCh
\* closed and empty ("no solution found"), errorCh closed (the zero value nil
\* is received and returned as the error), or ctx.Done() (ctx.Err()).
SolvePoWReturn(case) ==
    /\ solver.pc = "running"
    /\ \/ /\ case = "result"
          /\ solver.resultCh # <<>>
          /\ solver' = [solver EXCEPT
                            !.pc = "returned",
                            !.resultCh = Tail(@),
                            !.result = [solution |-> Head(solver.resultCh), err |-> "nil",
                                        cancelled |-> solver.cancelled, early |-> solver.early]]
       \/ /\ case = "closed"
          /\ solver.resultCh = <<>> /\ solver.closed >= 1
          /\ solver' = [solver EXCEPT
                            !.pc = "returned",
                            !.result = [solution |-> <<>>, err |-> "no solution found",
                                        cancelled |-> solver.cancelled, early |-> solver.early]]
       \/ /\ case = "errorCh"
          /\ solver.closed = 2
          /\ solver' = [solver EXCEPT
                            !.pc = "returned",
                            !.result = [solution |-> <<>>, err |-> "nil",
                                        cancelled |-> solver.cancelled, early |-> solver.early]]
       \/ /\ case = "ctx"
          /\ solver.cancelled
          /\ solver' = [solver EXCEPT
                            !.pc = "returned",
                            !.result = [solution |-> <<>>, err |-> "canceled",
                                        cancelled |-> solver.cancelled, early |-> solver.early]]
    /\ UNCHANGED <<callVars, bucketVars, shutdownVars, codec, now, accepted, acc, conns, challenges,
                   timers, issued, lastVerify, base, currentConns, activeConns, difficulty,
                   failed, tokens, connections, limits, overloaded, floodPass, ttlHit>>

\* The client hands the solver's answer to the server, which verifies it.
SubmitSolution ==
    /\ solver.pc = "returned"
    /\ solver.result.err = "nil"
    /\ ServiceVerifySolution(solver.chal,
                             [prefix |-> solver.chal.prefix,
                              solution |-> solver.result.solution,
                              nonce |-> solver.chal.nonce])

-----------------------------------------------------------------------------
(* protocol.Message: Marshal and Unmarshal over byte sequences.            *)

\* protocol.Version
Version == 1

\* binary.BigEndian.PutUint16
PutUint16(v) == << v \div 256, v % 256 >>

\* binary.BigEndian.PutUint32
PutUint32(v) == << v \div 16777216, (v \div 65536) % 256, (v \div 256) % 256, v % 256 >>

\* Variant of Uint16 that reads the low byte first.
Uint16LittleEndian(b) == b[2] * 256 + b[1]

\* binary.BigEndian.Uint16
Uint16(b) == b[1] * 256 + b[2]

\* binary.BigEndian.Uint32
Uint32(b) == b[1] * 16777216 + b[2] * 65536 + b[3] * 256 + b[4]

\* The outcome of a call that returns (nil, err).
Failed(err) == [msg |-> <<>>, err |-> err]

\* Variant of Marshal without the version check.
MarshalAnyVersion(m) ==
    IF Len(m.Payload) > MaxMessageSize - HeaderSize
    THEN [data |-> <<>>, err |-> "ErrMessageTooLarge"]
    ELSE [data |-> << m.Version, m.Type >> \o PutUint16(m.Flags)
                       \o PutUint32(Len(m.Payload)) \o m.Payload,
          err |-> "nil"]

\* Message.Marshal: (buf, nil) or (nil, err).  The Length field of m is not
\* read; the header carries len(m.Payload).
Marshal(m) ==
    IF m.Version # Version THEN [data |-> <<>>, err |-> "ErrInvalidVersion"]
    ELSE IF Len(m.Payload) > MaxMessageSize - HeaderSize
         THEN [data |-> <<>>, err |-> "ErrMessageTooLarge"]
    ELSE [data |-> << m.Version, m.Type >> \o PutUint16(m.Flags)
                       \o PutUint32(Len(m.Payload)) \o m.Payload,
          err |-> "nil"]

\* Variant of Unmarshal whose size check also rejects the largest payload.
UnmarshalRejectsLargest(data) ==
    IF Len(data) < HeaderSize THEN Failed("ErrInvalidPayload")
    ELSE LET msg == [Version |-> data[1], Type |-> data[2],
                     Flags |-> Uint16(SubSeq(data, 3, 4)),
                     Length |-> Uint32(SubSeq(data, 5, 8)),
                     Payload |-> <<>>]
         IN IF msg.Version # Version THEN Failed("ErrInvalidVersion")
            ELSE IF msg.Length >= MaxMessageSize - HeaderSize THEN Failed("ErrMessageTooLarge")
            ELSE IF msg.Length > 0 /\ Len(data) >= HeaderSize + msg.Length
                 THEN [msg |-> << [msg EXCEPT !.Payload =
                                      SubSeq(data, HeaderSize + 1, HeaderSize + msg.Length)] >>,
                       err |-> "nil"]
            ELSE [msg |-> << msg >>, err |-> "nil"]

\* protocol.Unmarshal: (msg, nil) or (nil, err).  The payload is copied only
\* when the data holds all of it; otherwise the message is returned with a nil
\* payload.
Unmarshal(data) ==
    IF Len(data) < HeaderSize THEN Failed("ErrInvalidPayload")
    ELSE LET msg == [Version |-> data[1], Type |-> data[2],
                     Flags |-> Uint16(SubSeq(data, 3, 4)),
                     Length |-> Uint32(SubSeq(data, 5, 8)),
                     Payload |-> <<>>]
         IN IF msg.Version # Version THEN Failed("ErrInvalidVersion")
            ELSE IF msg.Length > MaxMessageSize - HeaderSize THEN Failed("ErrMessageTooLarge")
            ELSE IF msg.Length > 0 /\ Len(data) >= HeaderSize + msg.Length
                 THEN [msg |-> << [msg EXCEPT !.Payload =
                                      SubSeq(data, HeaderSize + 1, HeaderSize + msg.Length)] >>,
                       err |-> "nil"]
            ELSE [msg |-> << msg >>, err |-> "nil"]

\* make([]byte, n): n zero bytes.
Zeros(n) == [i \in 1..n |-> 0]

\* Server.readMessage on a connection that holds the bytes `stream`: one Read
\* for the header, Unmarshal of the header alone, and one Read for the
\* payload, which returns n of the bytes (n >= 1, at most what is there and
\* what the buffer takes) or fails with no byte; the rest of the buffer stays zero.
readMessage(stream, n) ==
    IF stream = <<>> THEN Failed("failed to read header")
    ELSE LET got == Min(Len(stream), HeaderSize)
             headerBuf == SubSeq(stream, 1, got) \o Zeros(HeaderSize - got)
             hdr == Unmarshal(headerBuf)
         IN IF hdr.err # "nil" THEN Failed("failed to unmarshal header")
            ELSE LET msg == hdr.msg[1]
                     avail == Len(stream) - got
                 IN IF msg.Length > 0
                    THEN IF avail = 0 THEN Failed("failed to read payload")
                         ELSE LET k == Min(Min(n, avail), msg.Length)
                              IN [msg |-> << [msg EXCEPT !.Payload =
                                                SubSeq(stream, got + 1, got + k)
                                                    \o Zeros(msg.Length - k)] >>,
                                  err |-> "nil"]
                    ELSE [msg |-> << msg >>, err |-> "nil"]

\* Payload bytes of the model, and the payloads made of them: up to one byte
\* more than a message may carry.
PayloadBytes == {0, 34, 255}

PayloadsOfLen(n) == [1..n -> PayloadBytes]

BytePayloads == UNION { PayloadsOfLen(n) : n \in 0..(MaxMessageSize - HeaderSize + 1) }

\* Message values handed to Marshal: Length is what SetPayload sets or the
\* zero a struct literal leaves.
Messages ==
    UNION { [Version : {Version, Version + 1}, Type : 1..4, Flags : {0, 1, 256, 65535},
             Length : {0, Len(p)}, Payload : {p}] : p \in BytePayloads }

\* Byte sequences handed to Unmarshal: a header declaring length L followed
\* by some payload bytes, cut anywhere.
DeclaredLengths == (0..(MaxMessageSize - HeaderSize + 1)) \cup {65536, 16777216}

Frames ==
    { << v, 2 >> \o PutUint16(fl) \o PutUint32(L) \o p :
         v \in {Version, Version + 1}, fl \in {0, 256}, L \in DeclaredLengths,
         p \in BytePayloads }

\* m.Marshal() and, when it succeeds, Unmarshal of its output.
MarshalUnmarshal(m) ==
    /\ codec = <<>>
    /\ LET enc == Marshal(m)
       IN codec' = << [op |-> "roundtrip", m |-> m, enc |-> enc,
                       dec |-> IF enc.err = "nil" THEN Unmarshal(enc.data)
                               ELSE Failed("not called")] >>
    /\ UNCHANGED <<callVars, bucketVars, shutdownVars, solver, now, accepted, acc, conns, challenges,
                   timers, issued, lastVerify, base, currentConns, activeConns, difficulty,
                   failed, tokens, connections, limits, overloaded, floodPass, ttlHit>>

\* Unmarshal(data) for the first cut bytes of a frame.
UnmarshalData(frame, cut) ==
    /\ codec = <<>>
    /\ LET data == SubSeq(frame, 1, cut)
       IN codec' = << [op |-> "unmarshal", data |-> data, dec |-> Unmarshal(data)] >>
    /\ UNCHANGED <<callVars, bucketVars, shutdownVars, solver, now, accepted, acc, conns, challenges,
                   timers, issued, lastVerify, base, currentConns, activeConns, difficulty,
                   failed, tokens, connections, limits, overloaded, floodPass, ttlHit>>

\* s.readMessage(conn) with the first cut bytes of a frame on the connection
\* and a payload Read that returns n bytes.
ReadMessage(frame, cut, n) ==
    /\ codec = <<>>
    /\ LET data == SubSeq(frame, 1, cut)
       IN codec' = << [op |-> "read", data |-> data, n |-> n, dec |-> readMessage(data, n)] >>
    /\ UNCHANGED <<callVars, bucketVars, shutdownVars, solver, now, accepted, acc, conns, challenges,
                   timers, issued, lastVerify, base, currentConns, activeConns, difficulty,
                   failed, tokens, connections, limits, overloaded, floodPass, ttlHit>>

-----------------------------------------------------------------------------
(* protection.IPFilter and the ratelimit limiters called directly.         *)

\* NewIPFilter(whitelist, blacklist).IsAllowed(addr) by a direct caller.
FilterIsAllowed(whitelist, blacklist, addr) ==
    /\ lastCall' = << [fn |-> "IsAllowed", whitelist |-> whitelist, blacklist |-> blacklist,
                       addr |-> addr,
                       ok |-> IsAllowed(NewIPFilter(whitelist, blacklist), addr)] >>
    /\ UNCHANGED <<bucketVars, shutdownVars, clientVars, now, accepted, acc, conns, challenges,
                   timers, issued, lastVerify, base, currentConns, activeConns, difficulty,
                   failed, tokens, connections, limits, overloaded, floodPass, ttlHit>>

\* cl.AllowConnection(addr) by a direct caller.
LimiterAllowConnection(addr) ==
    /\ LET r == ConnectionLimiterAllowConnection(connections, addr, now)
       IN /\ connections' = r.connections
          /\ ttlHit' = IF r.reset THEN ttlHit \cup {addr.ip} ELSE ttlHit
          /\ lastCall' = << [fn |-> "ConnectionLimiter.AllowConnection", ip |-> extractIP(addr),
                             before |-> connections, after |-> r.connections,
                             ok |-> r.ok] >>
    /\ UNCHANGED <<bucketVars, shutdownVars, clientVars, now, accepted, acc, conns, challenges,
                   timers, issued, lastVerify, base, currentConns, activeConns, difficulty,
                   failed, tokens, limits, overloaded, floodPass>>

\* cl.RemoveConnection(addr) by a direct caller, for any address, with or
\* without an entry.
LimiterRemoveConnection(addr) ==
    /\ connections' = RemoveConnection(connections, addr)
    /\ lastCall' = << [fn |-> "RemoveConnection", ip |-> extractIP(addr),
                       before |-> connections,
                       after |-> RemoveConnection(connections, addr)] >>
    /\ UNCHANGED <<bucketVars, shutdownVars, clientVars, now, accepted, acc, conns, challenges,
                   timers, issued, lastVerify, base, currentConns, activeConns, difficulty,
                   failed, tokens, limits, overloaded, floodPass, ttlHit>>

\* rl.AllowConnection(addr) by a direct caller; the history keeps the entry
\* the call found.
RateAllowConnection(addr) ==
    /\ LET r == IPRateLimiterAllowConnection(limits, addr, now)
           ip == extractIP(addr)
       IN /\ limits' = r.limits
          /\ lastCall' = << [fn |-> "AllowConnection", ip |-> ip, at |-> now,
                             before |-> IF ip \in DOMAIN limits THEN << limits[ip] >> ELSE <<>>,
                             ok |-> r.ok] >>
    /\ UNCHANGED <<bucketVars, shutdownVars, clientVars, now, accepted, acc, conns, challenges,
                   timers, issued, lastVerify, base, currentConns, activeConns, difficulty,
                   failed, tokens, connections, overloaded, floodPass, ttlHit>>

-----------------------------------------------------------------------------
(* The difficulty controller on its own.                                   *)

MaxLoad == 11   \* live connection counts the controller's ticks observe: 0..MaxLoad
MaxCap == 10    \* values of Config.MaxConnections: 1..MaxCap

\* One tick of adjustDifficulty in a server configured with MaxConnections
\* max and InitialDifficulty b, observing n live connections: the new value is
\* swapped into s.difficulty.  The history keeps the configuration, the
\* observed count and the value that was published before.
AdjustDifficultyTick(n, b, max) ==
    /\ difficulty' = newDifficulty(n, b, max)
    /\ lastCall' = << [fn |-> "adjustDifficulty", currentConns |-> n,
                       InitialDifficulty |-> b, MaxConnections |-> max,
                       oldDifficulty |-> difficulty] >>
    /\ UNCHANGED <<bucketVars, shutdownVars, clientVars, now, accepted, acc, conns, challenges,
                   timers, issued, lastVerify, base, currentConns, activeConns, failed,
                   tokens, connections, limits, overloaded, floodPass, ttlHit>>

-----------------------------------------------------------------------------
(* protection.FailedAttempts called directly.                              *)

\* The entry RegisterFailure creates for an address it has not seen.
NoAttempts == [count |-> 0, lastFail |-> ZeroTime, blockedAt |-> ZeroTime]

\* The attemptInfo of addr in the map f, as a sequence of one or no entry.
AttemptInfo(f, addr) ==
    IF AddrString(addr) \in DOMAIN f THEN << f[AddrString(addr)] >> ELSE << >>

\* fa.RegisterFailure(addr) by a direct caller; the history keeps the entry
\* the call found and the entry it left.  A caller registers a few failures
\* more than the threshold and then stops.
FailedRegisterFailure(addr) ==
    /\ GetFailureCount(failed, addr) < MaxFailedAttempts + 2
    /\ failed' = RegisterFailure(failed, addr, now)
    /\ lastCall' = << [fn |-> "RegisterFailure", addr |-> addr, at |-> now,
                       before |-> AttemptInfo(failed, addr),
                       after |-> AttemptInfo(RegisterFailure(failed, addr, now), addr)] >>
    /\ UNCHANGED <<bucketVars, shutdownVars, clientVars, now, accepted, acc, conns, challenges,
                   timers, issued, lastVerify, base, currentConns, activeConns, difficulty,
                   tokens, connections, limits, overloaded, floodPass, ttlHit>>

\* fa.IsBlocked(addr) by a direct caller; the history keeps the entry the call
\* found, the answer and the entry it left.
FailedIsBlocked(addr) ==
    /\ LET r == IsBlocked(failed, addr, now)
       IN /\ failed' = r.attempts
          /\ lastCall' = << [fn |-> "IsBlocked", addr |-> addr, at |-> now,
                             before |-> AttemptInfo(failed, addr),
                             after |-> AttemptInfo(r.attempts, addr),
                             blocked |-> r.blocked] >>
    /\ UNCHANGED <<bucketVars, shutdownVars, clientVars, now, accepted, acc, conns, challenges,
                   timers, issued, lastVerify, base, currentConns, activeConns, difficulty,
                   tokens, connections, limits, overloaded, floodPass, ttlHit>>

-----------------------------------------------------------------------------
(* protection.TokenBucket called directly.                                 *)

\* Fill rates a bucket is built with: the configured one, and one so small
\* that no token accrues while the clock of the model runs.
FillRates == { [num |-> TokenFillRate, den |-> 1],
               [num |-> 1, den |-> TokenCleanupInterval + MaxTime] }

\* NewTokenBucket(c, r): a bucket with no entries.
NewTokenBucket(c, r) ==
    /\ now = 0
    /\ NoReader
    /\ tokens = EmptyMap
    /\ taken = NoneTaken
    /\ <<c, r>> # <<capacity, fillRate>>
    /\ capacity' = c
    /\ fillRate' = r
    /\ UNCHANGED <<now, accepted, acc, conns, challenges, timers, issued, lastVerify, base,
                   currentConns, activeConns, difficulty, failed, tokens, connections,
                   limits, overloaded, floodPass, ttlHit, taken, getters, tickers, shutdownVars,
                   clientVars, callVars>>

\* t.GetTokens(ip), entered by goroutine g under RLock.  For a key without a
\* bucket it returns the capacity.  Otherwise refillBucket reads lastUpdate
\* and computes newTokens for the time of the call; other readers may be in
\* refillBucket on the same bucket at the same time.
GetTokens(g, ip) ==
    /\ getters[g].pc = "idle"
    /\ IF ip \notin DOMAIN tokens
       THEN /\ lastCall' = << [fn |-> "GetTokens", ip |-> ip, tokens |-> capacity] >>
            /\ UNCHANGED getters
       ELSE LET elapsed == now - tokens[ip].lastUpdate
                newTokens == (elapsed * fillRate.num) \div fillRate.den
            IN /\ getters' = [getters EXCEPT ![g] =
                                 [pc |-> IF newTokens > 0 THEN "load" ELSE "return",
                                  ip |-> ip, at |-> now, newTokens |-> newTokens, sum |-> 0]]
               /\ UNCHANGED lastCall
    /\ UNCHANGED <<capacity, fillRate, taken, tickers, shutdownVars, clientVars, now, accepted, acc,
                   conns, challenges, timers, issued, lastVerify, base, currentConns,
                   activeConns, difficulty, failed, tokens, connections, limits, overloaded,
                   floodPass, ttlHit>>

\* refillBucket inside GetTokens, one memory access after the other: the read
\* of b.tokens, the write of b.tokens, the write of b.lastUpdate; then the
\* read of b.tokens that is returned, and RUnlock.
GetTokensStep(g) ==
    /\ getters[g].pc # "idle"
    /\ LET st == getters[g]
           b == tokens[st.ip]
       IN CASE st.pc = "load" ->
                 /\ getters' = [getters EXCEPT ![g].pc = "store",
                                               ![g].sum = Min(b.tokens + st.newTokens, capacity)]
                 /\ UNCHANGED <<tokens, lastCall>>
            [] st.pc = "store" ->
                 /\ tokens' = [tokens EXCEPT ![st.ip].tokens = st.sum]
                 /\ getters' = [getters EXCEPT ![g].pc = "stamp"]
                 /\ UNCHANGED lastCall
            [] st.pc = "stamp" ->
                 /\ tokens' = [tokens EXCEPT ![st.ip].lastUpdate = st.at]
                 /\ getters' = [getters EXCEPT ![g].pc = "return"]
                 /\ UNCHANGED lastCall
            [] st.pc = "return" ->
                 /\ lastCall' = << [fn |-> "GetTokens", ip |-> st.ip, tokens |-> b.tokens] >>
                 /\ getters' = [getters EXCEPT ![g] = NotGetting]
                 /\ UNCHANGED tokens
    /\ UNCHANGED <<capacity, fillRate, taken, tickers, shutdownVars, clientVars, now, accepted, acc,
                   conns, challenges, timers, issued, lastVerify, base, currentConns,
                   activeConns, difficulty, failed, connections, limits, overloaded,
                   floodPass, ttlHit>>

\* t.Take(ip) under Lock; the history keeps the bucket the call found, its
\* answer and the bucket it left.
TokenTake(ip) ==
    /\ NoReader
    /\ LET r == Take(tokens, ip, now)
       IN /\ tokens' = r.tokens
          /\ lastCall' = << [fn |-> "Take", ip |-> ip, at |-> now, ok |-> r.ok,
                             before |-> IF ip \in DOMAIN tokens THEN << tokens[ip] >>
                                        ELSE << >>,
                             after |-> r.tokens[ip]] >>
    /\ UNCHANGED <<bucketVars, shutdownVars, clientVars, now, accepted, acc, conns, challenges,
                   timers, issued, lastVerify, base, currentConns, activeConns, difficulty,
                   failed, connections, limits, overloaded, floodPass, ttlHit>>

\* refillRoutine: its ticker, of period one second, delivers a tick and
\* refillAll runs.
TickerRefill ==
    /\ "refill" \in tasks
    /\ NoReader
    /\ now >= tickers.refill
    /\ tokens' = refillAll(tokens, now)
    /\ tickers' = [tickers EXCEPT !.refill = @ + 1]
    /\ UNCHANGED <<capacity, fillRate, taken, getters, shutdownVars, clientVars, callVars,
                   now, accepted, acc, conns, challenges, timers, issued, lastVerify, base,
                   currentConns, activeConns, difficulty, failed, connections, limits,
                   overloaded, floodPass, ttlHit>>

\* cleanupRoutine: its ticker, of period cleanupInterval, delivers a tick and
\* cleanup runs.
TickerCleanup ==
    /\ "tokenCleanup" \in tasks
    /\ NoReader
    /\ now >= tickers.cleanup
    /\ tokens' = TokenCleanup(tokens, now)
    /\ tickers' = [tickers EXCEPT !.cleanup = @ + TokenCleanupInterval]
    /\ UNCHANGED <<capacity, fillRate, taken, getters, shutdownVars, clientVars, callVars,
                   now, accepted, acc, conns, challenges, timers, issued, lastVerify, base,
                   currentConns, activeConns, difficulty, failed, connections, limits,
                   overloaded, floodPass, ttlHit>>

\* The clock moves on once both routines have served the ticks that were due.
TickerTick ==
    /\ now < MaxTime
    /\ now < tickers.refill
    /\ now < tickers.cleanup
    /\ now' = now + 1
    /\ floodPass' = [ip \in IPs |-> 0]
    /\ UNCHANGED <<ext, accepted, acc, conns, challenges, timers, issued, lastVerify, base,
                   currentConns, activeConns, difficulty, failed, tokens, connections,
                   limits, overloaded, ttlHit>>

\* t.Take(ip) by a direct caller; a true answer is logged under the tick.
BucketTake(ip) ==
    /\ NoReader
    /\ LET r == Take(tokens, ip, now)
       IN /\ tokens' = r.tokens
          /\ taken' = IF r.ok THEN [taken EXCEPT ![ip][now] = @ + 1] ELSE taken
    /\ <<tokens', taken'>> # <<tokens, taken>>
    /\ UNCHANGED <<now, accepted, acc, conns, challenges, timers, issued, lastVerify, base,
                   currentConns, activeConns, difficulty, failed, connections,
                   limits, overloaded, floodPass, ttlHit, capacity, fillRate, getters, tickers,
                   shutdownVars, clientVars, callVars>>

-----------------------------------------------------------------------------
(* Specifications.                                                         *)

\* The environment of the run: remote addresses, the random strings of
\* CreateChallenge, the payloads clients send, and the outcomes of socket
\* writes and reads.
Environment(addrs, prefixes, nonces, payloads, writes, reads) ==
    \/ \E c \in Slots, addr \in addrs : Accept(c, addr)
    \/ \E c \in Slots, prefix \in prefixes, nonce \in nonces, w \in writes :
          HandleChallenge(c, prefix, nonce, w)
    \/ \E c \in Slots, e \in reads : HandleDeadlineError(c, e)
    \/ \E c \in Slots, e \in reads : HandleReadError(c, e)
    \/ \E c \in Slots, solution \in payloads, w \in writes :
          HandleSolution(c, solution, w)

\* Server.Run, the handler goroutines and the expiry goroutines.
Server ==
    \/ CheckIsAllowed
    \/ CheckProtectedConn
    \/ CheckConLimiter
    \/ CheckRateLimiter
    \/ CheckMaxConns
    \/ Spawn
    \/ \E c \in Slots : DeferDone(c)
    \/ \E c \in Slots : DeferRelease(c)
    \/ \E c \in Slots : DeferClose(c)
    \/ \E tm \in timers : ExpireChallenge(tm)

\* The periodic tasks of the limiters.
Janitors ==
    \/ RefillTick
    \/ TokenCleanupTick
    \/ FailedCleanupTick
    \/ ConnectionLimiterCleanupTick
    \/ IPRateLimiterCleanupTick

\* Payloads of a client that either answers with garbage or with the strings
\* of a challenge the server has stored.
ProbePayloads ==
    { p \in Payloads : p.prefix = Bogus /\ p.nonce = Bogus /\ p.solution = <<0>> }
    \cup { p \in Payloads : p.nonce \in DOMAIN challenges
                            /\ p.prefix = challenges[p.nonce].prefix }

\* The whole server: any remote address, any payload, every background task.
Next ==
    \/ Environment(Addrs, Prefixes, Nonces, Payloads, IOOutcomes, IOErrors)
    \/ Server
    \/ Janitors
    \/ AdjustDifficulty
    \/ MemorySample
    \/ Tick

Spec == Init /\ [][Next]_vars

\* The admission pipeline under load: any remote address, memory pressure
\* coming and going, clients that answer a challenge or hang up.
NextAdmission ==
    \/ Environment(Addrs, {<<1>>}, {<<5>>}, ProbePayloads, {"nil"}, {"other"})
    \/ Server
    \/ ConnectionLimiterCleanupTick
    \/ MemorySample
    \/ Tick

\* A server configured with InitialDifficulty = 1.
InitDifficultyOne == Init /\ base = 1

SpecAdmission == InitDifficultyOne /\ [][NextAdmission]_vars

\* The protocol exchange: one remote host, clients that answer with the
\* stored strings or with garbage, sockets that fail in every way, the
\* difficulty loop and the failed-attempt sweeper running.
NextHandler ==
    \/ Environment({a \in Addrs : a.ip = "a"}, {<<1>>}, {<<5>>}, ProbePayloads,
                   IOOutcomes, IOErrors)
    \/ Server
    \/ FailedCleanupTick
    \/ AdjustDifficulty
    \/ Tick

SpecHandler == Init /\ [][NextHandler]_vars

\* One exchange at a time: a single remote address reconnecting, sockets that
\* fail in every way, the difficulty loop and the failed-attempt sweeper.
NextExchange ==
    \/ Environment({AnyAddr}, {<<1>>}, {<<5>>}, ProbePayloads, IOOutcomes, IOErrors)
    \/ Server
    \/ FailedCleanupTick
    \/ AdjustDifficulty
    \/ Tick

SpecExchange == Init /\ [][NextExchange]_vars

\* pow.Service alone: a caller that creates challenges and verifies payloads.
NextService ==
    \/ \E d \in 0..(MaxInitialDifficulty + 1), prefix \in Prefixes, nonce \in Nonces :
          ServiceCreateChallenge(d, prefix, nonce)
    \/ \E challenge \in issued, solution \in Payloads :
          ServiceVerifySolution(challenge, solution)
    \/ \E tm \in timers : ExpireChallenge(tm)
    \/ Tick

SpecService == InitDifficultyOne /\ [][NextService]_vars

\* TokenBucket alone: buckets of every small capacity and of both fill rates,
\* callers taking for two keys, the refill and the cleanup routine running.
NextBucket ==
    \/ \E c \in 1..(TokenBucketSize + 1), r \in FillRates : NewTokenBucket(c, r)
    \/ \E ip \in IPs : BucketTake(ip)
    \/ RefillTick
    \/ TokenCleanupTick
    \/ Tick

SpecBucket == InitDifficultyOne /\ [][NextBucket]_vars

\* The flood bucket under every caller at once: Take, GetTokens from two
\* goroutines that share the read lock, the refill, the cleanup and the clock.
NextTokens ==
    \/ \E c \in 1..(TokenBucketSize + 1), r \in FillRates : NewTokenBucket(c, r)
    \/ \E ip \in IPs : TokenTake(ip)
    \/ \E g \in Getters, ip \in IPs : GetTokens(g, ip)
    \/ \E g \in Getters : GetTokensStep(g)
    \/ RefillTick
    \/ TokenCleanupTick
    \/ Tick

SpecTokens == InitDifficultyOne /\ [][NextTokens]_vars

\* The flood bucket with its two routines on their tickers: a bucket of any
\* small capacity and of either fill rate is built, callers take for two
\* keys, and every tick of a ticker is served at the instant it is due.
NextEvict ==
    \/ \E c \in 1..(TokenBucketSize + 1), r \in FillRates : NewTokenBucket(c, r)
    \/ \E ip \in IPs : TokenTake(ip)
    \/ TickerRefill
    \/ TickerCleanup
    \/ TickerTick

SpecEvict == InitDifficultyOne /\ [][NextEvict]_vars

\* Client and server around one challenge: the service creates it (no other
\* challenge is issued in these behaviours), the
\* solver works on it with its context cancelled at any moment or never, the
\* answer is verified, the clock runs and the challenge expires.  Every
\* goroutine of the solver that can take a step eventually does.
NextSolver ==
    \/ issued = {} /\ \E d \in 0..(MaxInitialDifficulty + 1), prefix \in Prefixes :
          ServiceCreateChallenge(d, prefix, <<5>>)
    \/ \E c \in issued, cancelled \in BOOLEAN : SolvePoW(c, cancelled)
    \/ SolverCancel
    \/ \E k \in Workers : SolverWorker(k)
    \/ \E k \in Workers, onDone \in BOOLEAN : SolverWorkerSend(k, onDone)
    \/ SolverClose
    \/ \E case \in {"result", "closed", "errorCh", "ctx"} : SolvePoWReturn(case)
    \/ SubmitSolution
    \/ \E tm \in timers : ExpireChallenge(tm)
    \/ Tick

SpecSolver ==
    /\ InitDifficultyOne
    /\ [][NextSolver]_vars
    /\ \A k \in Workers : WF_vars(SolverWorker(k))
    /\ \A k \in Workers : WF_vars(\E onDone \in BOOLEAN : SolverWorkerSend(k, onDone))
    /\ WF_vars(SolverClose)
    /\ WF_vars(\E case \in {"result", "closed", "errorCh", "ctx"} : SolvePoWReturn(case))

\* The codec on its own, one call in each behaviour: a message is marshalled
\* and read back, or a frame, whole or cut short, is unmarshalled or read from
\* a connection.
NextCodec ==
    \/ codec = <<>> /\ \E m \in Messages : MarshalUnmarshal(m)
    \/ codec = <<>> /\ \E frame \in Frames : \E cut \in 0..Len(frame) : UnmarshalData(frame, cut)
    \/ codec = <<>> /\ \E frame \in Frames : \E cut \in 0..Len(frame) :
          \E n \in 1..(MaxMessageSize - HeaderSize) : ReadMessage(frame, cut, n)

SpecCodec == InitDifficultyOne /\ [][NextCodec]_vars

\* The IP filter on its own: any two lists of address strings, any address.
NextFilter ==
    \E whitelist \in SUBSET { AddrString(a) : a \in Addrs },
       blacklist \in SUBSET { AddrString(a) : a \in Addrs },
       addr \in Addrs : FilterIsAllowed(whitelist, blacklist, addr)

SpecFilter == InitDifficultyOne /\ [][NextFilter]_vars

\* Two clients, one per IP, whose challenges differ in prefix and nonce; each
\* may answer with a payload for any challenge that is stored.
NextCross ==
    \/ Environment({[ip |-> "a", port |-> 1], [ip |-> "b", port |-> 1]}, Prefixes, Nonces,
                   ProbePayloads, {"nil"}, {"other"})
    \/ Server
    \/ AdjustDifficulty
    \/ Tick

SpecCross == InitDifficultyOne /\ [][NextCross]_vars

\* The request-rate limiter on its own: calls from any address, the cleanup
\* and the clock.
NextRate ==
    \/ \E addr \in Addrs : RateAllowConnection(addr)
    \/ IPRateLimiterCleanupTick
    \/ Tick

SpecRate == InitDifficultyOne /\ [][NextRate]_vars

\* The per-IP connection limiter on its own: reservations and releases from
\* any address in any order, the cleanup and the clock.
NextLimiter ==
    \/ \E addr \in Addrs : LimiterAllowConnection(addr)
    \/ \E addr \in Addrs : LimiterRemoveConnection(addr)
    \/ ConnectionLimiterCleanupTick
    \/ Tick

SpecLimiter == InitDifficultyOne /\ [][NextLimiter]_vars

\* The difficulty controller under every small configuration and load: each
\* step is one tick of its ticker.
SpecDifficulty ==
    InitDifficultyOne /\
    [][\E n \in 0..MaxLoad, b \in 0..(MaxInitialDifficulty + 1), max \in 1..MaxCap :
          AdjustDifficultyTick(n, b, max)]_vars

\* FailedAttempts on its own: failures registered and IsBlocked asked for two
\* addresses of one host in any order, the cleanup goroutine and the clock.
NextFailed ==
    \/ \E addr \in { a \in Addrs : a.ip = "a" } : FailedRegisterFailure(addr)
    \/ \E addr \in { a \in Addrs : a.ip = "a" } : FailedIsBlocked(addr)
    \/ FailedCleanupTick
    \/ Tick

SpecFailed == InitDifficultyOne /\ [][NextFailed]_vars

\* Shutdown of a server under use: one remote address, the context cancelled
\* and Shutdown called at any moment of the accept loop and of the handlers.
NextShutdown ==
    \/ Environment({AnyAddr}, {<<1>>}, {<<5>>}, ProbePayloads, {"nil"}, {"other"})
    \/ Server
    \/ \E blocked \in BOOLEAN : CancelContext(blocked)
    \/ RunReturn
    \/ ShutdownCall
    \/ WaiterDone
    \/ ShutdownExpire
    \/ \E result \in {"nil", "error"} : ShutdownReturn(result)
    \/ Tick

SpecShutdown == InitDifficultyOne /\ [][NextShutdown]_vars

\* The end of the background goroutines: the accept loop turning away
\* connections from a blacklisted address, the memory monitor sampling, the
\* context cancelled and Shutdown called at any moment.  A goroutine whose
\* stop signal is given eventually returns, and so does Run.
NextStop ==
    \/ \E c \in Slots, addr \in { a \in Addrs : AddrString(a) \in IPBlacklist } : Accept(c, addr)
    \/ CheckIsAllowed
    \/ \E blocked \in BOOLEAN : CancelContext(blocked)
    \/ RunReturn
    \/ ShutdownCall
    \/ WaiterDone
    \/ ShutdownExpire
    \/ \E result \in {"nil", "error"} : ShutdownReturn(result)
    \/ \E t \in Tasks : TaskExit(t)
    \/ MemorySample
    \/ Tick

SpecStop ==
    /\ InitDifficultyOne
    /\ [][NextStop]_vars
    /\ WF_vars(RunReturn)
    /\ \A t \in Tasks : WF_vars(TaskExit(t))

-----------------------------------------------------------------------------
(* Properties.                                                             *)

\* C1, as stated: on every connection the first frame is a Challenge; a Quote
\* follows only a solution that was read and verified true; a failed
\* verification is answered by exactly one Error frame and no Quote.
C1_ChallengeAlwaysFirst ==
    \A c \in Slots :
        LET f == conns[c].frames IN
        /\ f # <<>> => f[1] = "Challenge"
        /\ \A i \in 1..Len(f) : f[i] = "Quote" => i > 1 /\ conns[c].verified = "true"
        /\ conns[c].verified = "false" => f = <<"Challenge", "INVALID_SOLUTION">>

\* C1, amended: the frames of a connection are a prefix of Challenge, Quote or
\* of Challenge, Error(INVALID_SOLUTION), or the single frame
\* Error(INTERNAL_ERROR) when challenge creation failed (difficulty 0), in which
\* case no solution is read.  A Quote is sent only after a solution verified
\* true, and a failed verification gets exactly one Error and no Quote.
C1_FrameOrder ==
    \A c \in Slots :
        LET f == conns[c].frames IN
        /\ f \in { <<>>, <<"Challenge">>, <<"Challenge", "Quote">>,
                   <<"Challenge", "INVALID_SOLUTION">>, <<"INTERNAL_ERROR">> }
        /\ f = <<"INTERNAL_ERROR">> => conns[c].verified = "none"
        /\ (f # <<>> /\ f # <<"INTERNAL_ERROR">>) => f[1] = "Challenge"
        /\ \A i \in 1..Len(f) : f[i] = "Quote" => i > 1 /\ conns[c].verified = "true"
        /\ conns[c].verified = "true" => f = <<"Challenge", "Quote">>
        /\ conns[c].verified = "false" => f = <<"Challenge", "INVALID_SOLUTION">>

\* C1 witness: a connection got Challenge, then Quote after its solution
\* verified, on a server that has accepted a further connection.
C1_Witness ==
    \E c \in Slots : /\ conns[c].frames = <<"Challenge", "Quote">>
                     /\ conns[c].verified = "true"
                     /\ conns[c].pc = "defer1"
                     /\ accepted > 1

\* C2: VerifySolution(challenge, solution) is true exactly when the store has
\* an entry under solution.nonce, the entry's prefix equals solution.prefix,
\* now is not after the entry's expiresAt, and the hex hash of prefix ++
\* solution begins with at least `difficulty` zeros.
C2_VerifyIff ==
    LET RECURSIVE LeadingZeros(_)
        LeadingZeros(hash) ==
            IF hash = <<>> \/ Head(hash) # 0 THEN 0 ELSE 1 + LeadingZeros(Tail(hash))
    IN \A challenge \in issued, p \in Payloads :
           VerifySolution(challenges, challenge, p, now)
           <=> /\ p.nonce \in DOMAIN challenges
               /\ challenges[p.nonce].prefix = p.prefix
               /\ now <= challenges[p.nonce].expiresAt
               /\ LeadingZeros(calculateHash(p.prefix \o p.solution))
                     >= challenges[p.nonce].difficulty

\* C2 witness: a direct call verified a payload, while another payload names a
\* nonce that is not in the store.
C2_Witness ==
    /\ lastVerify # <<>>
    /\ lastVerify[1].ok
    /\ \E n \in Nonces : n \notin DOMAIN challenges

\* C3: for every challenge c that CreateChallenge returned (its nonce being
\* unique), at any time after c.expiresAt no payload for c, that is carrying
\* its nonce, verifies, whether or not the deletion goroutine has run; and the
\* last direct call agrees.
C3_ExpiredNeverVerifies ==
    /\ \A c \in issued :
          (now > c.expiresAt /\ \A d \in issued : d.nonce = c.nonce => d = c) =>
              \A p \in Payloads :
                  p.nonce = c.nonce => ~VerifySolution(challenges, c, p, now)
    /\ \A i \in 1..Len(lastVerify) :
          LET v == lastVerify[i] IN (v.late /\ v.unique /\ v.named) => ~v.ok

\* C3 witness: a payload with a sufficient hash was refused after the expiry of
\* its challenge while the record was still in the store.
C3_Witness ==
    /\ lastVerify # <<>>
    /\ LET v == lastVerify[1] IN
       /\ v.late
       /\ v.unique
       /\ v.named
       /\ v.prefixed
       /\ v.sufficient
       /\ v.stored
       /\ ~v.ok

\* C4: a step in which a handler finds that the solution fails verification
\* sends exactly one Error(INVALID_SOLUTION), ends the handler, and raises the
\* failure count of the client's address by exactly 1.
C4_BadSolutionCounted ==
    [][ \A c \in Slots :
          (conns[c].pc = "read" /\ conns'[c].verified = "false") =>
              /\ conns'[c].frames = <<"Challenge", "INVALID_SOLUTION">>
              /\ conns'[c].pc = "defer1"
              /\ GetFailureCount(failed', conns[c].addr)
                    = GetFailureCount(failed, conns[c].addr) + 1 ]_vars

\* C5: once MaxFailedAttempts bad-solution exchanges from one IP (any source
\* ports) have ended less than FailedBlockTime ago, the protection precheck
\* closes the next connection from that IP without a frame.  The exchanges
\* counted are those whose handlers have not yet run their deferred calls.
C5_BlockedAfterFailures ==
    [][ LET RecentBad(ip) ==
                { c \in Slots : /\ conns[c].pc = "defer1"
                                /\ conns[c].verified = "false"
                                /\ conns[c].addr.ip = ip
                                /\ now - conns[c].at < FailedBlockTime }
        IN (acc.pc = "isAllowed" /\ acc'.pc # "isAllowed"
               /\ Cardinality(RecentBad(conns[acc.c].addr.ip)) >= MaxFailedAttempts) =>
              /\ conns'[acc.c].pc = "closed"
              /\ conns'[acc.c].frames = <<>> ]_vars

\* C6: a connection that an admission check rejected is closed, was handed no
\* frame, has no challenge, and no handler ever ran for it.
C6_RejectionIsSilent ==
    \A c \in Slots :
        conns[c].reason # None =>
            /\ conns[c].pc = "closed"
            /\ conns[c].frames = <<>>
            /\ conns[c].chal = <<>>
            /\ conns[c].verified = "none"

\* C6 witness: a connection that passed every limiter was turned away by the
\* last check, the global cap, while another connection is in its handler.
C6_Witness ==
    /\ \E c \in Slots : /\ conns[c].reason = "max connections"
                        /\ conns[c].pc = "closed"
    /\ \E c \in Slots : conns[c].pc = "read"

\* C7: the first failing admission check ends admission: a rejected connection
\* has consumed limiter state of no check that comes after the rejecting one
\* in the order IP list, failed attempts, memory, flood bucket, wrap, per-IP
\* cap, request rate, global cap.
C7_FirstFailureEndsAdmission ==
    LET ConsumedBefore(reason) ==
            IF reason = "connection limit" THEN {"flood"}
            ELSE IF reason = "rate limit" THEN {"flood", "slot"}
            ELSE IF reason = "max connections" THEN {"flood", "slot", "rate"}
            ELSE {}
    IN \A c \in Slots :
           conns[c].reason # None =>
               conns[c].used \subseteq ConsumedBefore(conns[c].reason)

\* C8: for an IP with no TTL reset or eviction so far: the connections in a
\* handler never outnumber the recorded count, which never exceeds MaxPerIP;
\* while MaxPerIP of them are handled the per-IP check closes a further
\* connection without a frame; when one of MaxPerIP handled connections
\* terminates the count falls below the cap; and a count below the cap lets
\* the next connection pass the per-IP check.
C8_PerIPCap ==
    /\ [](LET Handled(ip) == { c \in Slots : InHandler(c) /\ conns[c].addr.ip = ip }
              CountOf(ip) == IF ip \in DOMAIN connections
                             THEN connections[ip].count ELSE 0
          IN \A ip \in IPs \ ttlHit :
                 /\ Cardinality(Handled(ip)) <= CountOf(ip)
                 /\ CountOf(ip) <= MaxPerIP)
    /\ [][ LET Handled(ip) == { c \in Slots : InHandler(c) /\ conns[c].addr.ip = ip }
           IN (acc.pc = "conLimiter" /\ acc'.pc # "conLimiter"
                  /\ conns[acc.c].addr.ip \notin ttlHit'
                  /\ Cardinality(Handled(conns[acc.c].addr.ip)) = MaxPerIP) =>
                 /\ conns'[acc.c].pc = "closed"
                 /\ conns'[acc.c].frames = <<>> ]_vars
    /\ [][ LET Handled(ip) == { c \in Slots : InHandler(c) /\ conns[c].addr.ip = ip }
           IN \A ip \in IPs \ ttlHit' :
                 (Cardinality(Handled(ip)) = MaxPerIP /\ Handled(ip)' # Handled(ip)) =>
                     (IF ip \in DOMAIN connections' THEN connections'[ip].count ELSE 0)
                         = MaxPerIP - 1 ]_vars
    /\ [][ LET CountOf(ip) == IF ip \in DOMAIN connections
                              THEN connections[ip].count ELSE 0
           IN (acc.pc = "conLimiter" /\ acc'.pc # "conLimiter"
                  /\ CountOf(conns[acc.c].addr.ip) < MaxPerIP) =>
                 acc'.pc = "rateLimiter" ]_vars

\* C8 witness: MaxPerIP connections of one host are in a handler, the host saw
\* no TTL event, and a further connection was closed by the per-IP check while
\* no other host holds a slot.
C8_Witness ==
    \E ip \in IPs \ ttlHit :
        /\ Cardinality({ c \in Slots : InHandler(c) /\ conns[c].addr.ip = ip }) = MaxPerIP
        /\ \E c \in Slots : /\ conns[c].reason = "connection limit"
                            /\ conns[c].frames = <<>>
        /\ \A other \in IPs \ {ip} : other \notin DOMAIN connections

\* C9: currentConns stays within 0..MaxConnections and equals the number of
\* handlers started and not yet released; the accept loop starts a handler
\* only below the cap, and a connection that meets currentConns =
\* MaxConnections at the cap check is closed without a handler.
C9_GlobalCap ==
    /\ [](/\ 0 <= currentConns
          /\ currentConns <= MaxConnections
          /\ currentConns = Cardinality({ c \in Slots : conns[c].pc \in
                                            {"handle", "read", "defer1", "defer2"} })
          /\ acc.pc = "spawn" => currentConns < MaxConnections)
    /\ [][ (acc.pc = "maxConns" /\ acc'.pc # "maxConns"
               /\ currentConns = MaxConnections) =>
              /\ conns'[acc.c].pc = "closed"
              /\ conns'[acc.c].reason = "max connections"
              /\ conns'[acc.c].frames = <<>>
              /\ currentConns' = currentConns ]_vars

\* C9 witness: the server is at the cap, every counted handler is running, and
\* a connection that arrived meanwhile was closed by the cap check.
C9_Witness ==
    /\ currentConns = MaxConnections
    /\ Cardinality({ c \in Slots : conns[c].pc \in {"handle", "read"} }) = MaxConnections
    /\ \E c \in Slots : conns[c].reason = "max connections"

\* C10: the flood bucket is per IP: with no refill time elapsed (within one
\* tick) at most TokenBucketSize connections of one IP pass the flood check,
\* whatever their source ports.
C10_FloodBucketPerIP ==
    \A ip \in IPs : floodPass[ip] <= TokenBucketSize

\* C11: for each key, the direct Take calls that returned true in any window
\* of ticks [t1, t2] number at most capacity + ceil((t2 - t1) * fillRate).
C11_TakeRateBound ==
    \A ip \in IPs : \A t1 \in 0..now : \A t2 \in t1..now :
        LET RECURSIVE TrueTakes(_)
            TrueTakes(t) == IF t < t1 THEN 0 ELSE taken[ip][t] + TrueTakes(t - 1)
            accrued == (t2 - t1) * fillRate.num
            ceil == (accrued + fillRate.den - 1) \div fillRate.den
        IN TrueTakes(t2) <= capacity + ceil

\* C12: a handler's read goes through the wrapper of its connection: when the
\* handler reads a frame and the bytes it has read so far, over the ticks since
\* the connection was wrapped, fall below MinReadRate, the read ends the
\* handler with slow-connection and no Quote is on the connection.
C12_ReadsThroughWrapper ==
    [][ \A c \in Slots :
          (conns[c].pc = "read" /\ conns'[c].pc = "defer1") =>
              LET n == conns'[c].rd - conns[c].rd
                  p == [conns[c].wrap[1] EXCEPT !.readBytes = conns[c].rd]
              IN (n > 0 /\ ProtectedRead(p, n, "nil", now).err = "slow connection") =>
                    /\ conns'[c].err = "slow connection"
                    /\ \A i \in 1..Len(conns'[c].frames) : conns'[c].frames[i] # "Quote" ]_vars

\* C13: the difficulty the controller has published, and the difficulty of
\* every stored challenge, is at most MaxDifficulty.
C13_DifficultyClamped ==
    /\ difficulty <= MaxDifficulty
    /\ \A nonce \in DOMAIN challenges : challenges[nonce].difficulty <= MaxDifficulty

\* C14: Shutdown returns nil only when no handler is inside handleConnection,
\* and returns the context's error only when its context has expired.
C14_ShutdownWaitsForHandlers ==
    /\ shut.pc = "nil" => shut.inflight = 0
    /\ shut.pc = "error" => shut.expired

\* C15: once the context is cancelled, the listener closed and Run has
\* returned, every background goroutine eventually returns.
C15_TasksTerminate ==
    (ctxDone /\ listener = "closed" /\ run = "returned") ~> (tasks = {})


\* Some candidate the model's workers try satisfies the solver's challenge.
SolutionExists ==
    \E j \in 0..MaxCandidate :
        ValidateHashDifficulty(CalculateHash(solver.chal.prefix \o Decimal(j)),
                               solver.chal.difficulty)

\* The payload the client builds from the solver's answer.
SolverPayload ==
    [prefix |-> solver.chal.prefix, solution |-> solver.result.solution,
     nonce |-> solver.chal.nonce]

\* The solver's challenge is the stored one of its nonce.
SolverChallengeStored ==
    /\ solver.chal.nonce \in DOMAIN challenges
    /\ challenges[solver.chal.nonce] = solver.chal

SolverCancelled == IF solver.pc = "idle" THEN FALSE ELSE solver.cancelled

\* Every worker goroutine of the solver has returned.
SolverWorkersDone ==
    IF solver.pc = "idle" THEN FALSE ELSE \A k \in Workers : solver.workers[k].pc = "done"

\* C17: a call whose context is cancelled before a worker has delivered a
\* solution (or is cancelled from the start) returns an error, no call returns
\* the empty solution with a nil error, and after cancellation every worker
\* stops.
C17_CancelledSolveFails ==
    /\ [](solver.pc = "returned" =>
             /\ solver.result.early => solver.result.err # "nil"
             /\ ~(solver.result.solution = <<>> /\ solver.result.err = "nil"))
    /\ SolverCancelled ~> SolverWorkersDone

\* The part of C17 about the pair ("", nil) alone.
NeverEmptySolutionWithNilError ==
    solver.pc = "returned" => ~(solver.result.solution = <<>> /\ solver.result.err = "nil")

\* The part of C17 about the workers alone.
CancelledWorkersStop ==
    SolverCancelled ~> SolverWorkersDone


\* A message was marshalled whose version is valid and whose payload fits.
RoundTripCase ==
    /\ codec # <<>>
    /\ codec[1].op = "roundtrip"
    /\ codec[1].m.Version = Version
    /\ Len(codec[1].m.Payload) <= MaxMessageSize - HeaderSize

\* C18 as stated: for every message of version 1 whose payload fits,
\* Unmarshal(Marshal(m)) succeeds and equals m in version, type, flags, length
\* and payload.
C18_RoundTrip ==
    RoundTripCase =>
        /\ codec[1].enc.err = "nil"
        /\ codec[1].dec.err = "nil"
        /\ codec[1].dec.msg = << codec[1].m >>

\* C18 amended: for every message of version 1 whose payload fits,
\* Unmarshal(Marshal(m)) succeeds and equals m in version, type, flags and
\* payload, and its length is the number of payload bytes; so it equals m in
\* length exactly when m.Length = len(m.Payload).
C18_RoundTripLengthOfPayload ==
    RoundTripCase =>
        /\ codec[1].enc.err = "nil"
        /\ codec[1].dec.err = "nil"
        /\ codec[1].dec.msg = << [codec[1].m EXCEPT !.Length = Len(codec[1].m.Payload)] >>
        /\ (codec[1].dec.msg[1].Length = codec[1].m.Length)
              <=> (codec[1].m.Length = Len(codec[1].m.Payload))

\* A message with the largest payload, two-byte flags and no Length set has
\* gone through Marshal and Unmarshal.
C18_Witness ==
    /\ RoundTripCase
    /\ Len(codec[1].m.Payload) = MaxMessageSize - HeaderSize
    /\ codec[1].m.Flags = 256
    /\ codec[1].m.Length = 0
    /\ codec[1].dec.err = "nil"
    /\ codec[1].dec.msg[1].Payload = codec[1].m.Payload

\* The byte sequence decoded holds a whole header that declares a length
\* L > 0 and fewer than HeaderSize + L bytes.
ShortPayloadCase ==
    /\ codec # <<>>
    /\ codec[1].op \in {"unmarshal", "read"}
    /\ Len(codec[1].data) >= HeaderSize
    /\ Uint32(SubSeq(codec[1].data, 5, 8)) > 0
    /\ Len(codec[1].data) < HeaderSize + Uint32(SubSeq(codec[1].data, 5, 8))

\* C19: decoding bytes whose header declares L > 0 but which hold fewer than
\* 8 + L bytes yields an error and no message, whether through Unmarshal or
\* through the server's readMessage.
C19_ShortPayloadIsError ==
    ShortPayloadCase =>
        /\ codec[1].dec.err # "nil"
        /\ codec[1].dec.msg = <<>>

\* The part of C19 about Unmarshal alone.
UnmarshalShortPayloadIsError ==
    (ShortPayloadCase /\ codec[1].op = "unmarshal") => codec[1].dec.err # "nil"

\* The part of C19 about readMessage alone.
ReadShortPayloadIsError ==
    (ShortPayloadCase /\ codec[1].op = "read") => codec[1].dec.err # "nil"

\* C20: with a valid version, Marshal rejects a payload with
\* ErrMessageTooLarge exactly when it has MaxMessageSize - HeaderSize + 1
\* bytes or more, and Unmarshal rejects a header with ErrMessageTooLarge
\* exactly when it declares that length or more; MaxMessageSize - HeaderSize
\* is accepted by both.
C20_SameBoundary ==
    /\ (codec # <<>> /\ codec[1].op = "roundtrip" /\ codec[1].m.Version = Version) =>
          /\ (codec[1].enc.err = "ErrMessageTooLarge")
                <=> (Len(codec[1].m.Payload) >= MaxMessageSize - HeaderSize + 1)
          /\ Len(codec[1].m.Payload) = MaxMessageSize - HeaderSize =>
                (codec[1].enc.err = "nil" /\ codec[1].dec.err = "nil")
    /\ (/\ codec # <<>>
        /\ codec[1].op = "unmarshal"
        /\ Len(codec[1].data) >= HeaderSize
        /\ codec[1].data[1] = Version) =>
          /\ (codec[1].dec.err = "ErrMessageTooLarge")
                <=> (Uint32(SubSeq(codec[1].data, 5, 8)) >= MaxMessageSize - HeaderSize + 1)
          /\ Uint32(SubSeq(codec[1].data, 5, 8)) = MaxMessageSize - HeaderSize =>
                codec[1].dec.err = "nil"

\* Unmarshal has accepted a whole frame that declares the largest length.
C20_Witness ==
    /\ codec # <<>>
    /\ codec[1].op = "unmarshal"
    /\ Len(codec[1].data) = MaxMessageSize
    /\ codec[1].data[1] = Version
    /\ Uint32(SubSeq(codec[1].data, 5, 8)) = MaxMessageSize - HeaderSize
    /\ codec[1].dec.err = "nil"
    /\ Len(codec[1].dec.msg[1].Payload) = MaxMessageSize - HeaderSize

\* Both sides have something to reject just above the boundary.
TooLargeRejected ==
    /\ codec # <<>>
    /\ \/ codec[1].op = "roundtrip" /\ codec[1].enc.err = "ErrMessageTooLarge"
       \/ codec[1].op = "unmarshal" /\ codec[1].dec.err = "ErrMessageTooLarge"


\* C21: a message whose version is not 1 is rejected by Marshal with
\* ErrInvalidVersion and no bytes, and a whole header whose version byte is not
\* 1 is rejected by Unmarshal with ErrInvalidVersion and no message, whatever
\* the payload or the declared length.
C21_InvalidVersionRejected ==
    /\ (codec # <<>> /\ codec[1].op = "roundtrip" /\ codec[1].m.Version # Version) =>
          /\ codec[1].enc.err = "ErrInvalidVersion"
          /\ codec[1].enc.data = <<>>
    /\ (/\ codec # <<>>
        /\ codec[1].op = "unmarshal"
        /\ Len(codec[1].data) >= HeaderSize
        /\ codec[1].data[1] # Version) =>
          /\ codec[1].dec.err = "ErrInvalidVersion"
          /\ codec[1].dec.msg = <<>>

\* Marshal has rejected a version-2 message whose payload would fit.
C21_Witness ==
    /\ codec # <<>>
    /\ codec[1].op = "roundtrip"
    /\ codec[1].m.Version = Version + 1
    /\ Len(codec[1].m.Payload) = MaxMessageSize - HeaderSize
    /\ codec[1].enc.err = "ErrInvalidVersion"

\* Unmarshal has rejected a version-2 header that also declares too large a
\* length: the version is looked at first.
UnmarshalVersionBeforeSize ==
    /\ codec # <<>>
    /\ codec[1].op = "unmarshal"
    /\ Len(codec[1].data) >= HeaderSize
    /\ codec[1].data[1] = Version + 1
    /\ Uint32(SubSeq(codec[1].data, 5, 8)) > MaxMessageSize - HeaderSize
    /\ codec[1].dec.err = "ErrInvalidVersion"


CreateChallengeZeroCalled ==
    /\ lastCall # <<>>
    /\ lastCall[1].fn = "CreateChallenge"
    /\ lastCall[1].difficulty = 0
    /\ lastCall[1].err # "nil"


\* C23: IsAllowed(addr) is membership of addr in the allow-list when that
\* list is non-empty, whatever the deny-list holds; otherwise it is false
\* exactly when addr is in the deny-list.
C23_IsAllowed ==
    (lastCall # <<>> /\ lastCall[1].fn = "IsAllowed") =>
        LET r == lastCall[1]
            key == AddrString(r.addr)
        IN /\ r.whitelist # {} => (r.ok <=> key \in r.whitelist)
           /\ r.whitelist = {} => (r.ok <=> key \notin r.blacklist)

\* An address on both lists has been let through: the deny-list is ignored
\* when there is an allow-list.
C23_Witness ==
    /\ lastCall # <<>>
    /\ lastCall[1].fn = "IsAllowed"
    /\ AddrString(lastCall[1].addr) \in lastCall[1].whitelist
    /\ AddrString(lastCall[1].addr) \in lastCall[1].blacklist
    /\ lastCall[1].ok


\* C24: every stored entry of the request-rate limiter has 0 <= tokens <=
\* burst; an entry that is blocked keeps its tokens and its flag for as long
\* as it is stored, and a call that finds a blocked entry returns false.
C24_RateLimiterTokens ==
    /\ [](\A ip \in DOMAIN limits : 0 <= limits[ip].tokens /\ limits[ip].tokens <= Burst)
    /\ []((lastCall # <<>> /\ lastCall[1].fn = "AllowConnection") =>
             ((lastCall[1].before # <<>> /\ lastCall[1].before[1].blocked) => ~lastCall[1].ok))
    /\ [][ \A ip \in DOMAIN limits :
              (limits[ip].blocked /\ ip \in DOMAIN limits') =>
                  /\ limits'[ip].tokens = limits[ip].tokens
                  /\ limits'[ip].blocked ]_vars

\* A call has found a blocked entry whose refill window has passed.
C24_Witness ==
    /\ lastCall # <<>>
    /\ lastCall[1].fn = "AllowConnection"
    /\ lastCall[1].before # <<>>
    /\ lastCall[1].before[1].blocked
    /\ lastCall[1].at - lastCall[1].before[1].lastReset > RateWindow
    /\ ~lastCall[1].ok

\* A blocked entry has been evicted by the cleanup.
BlockedEntryEvicted ==
    /\ lastCall # <<>>
    /\ lastCall[1].fn = "AllowConnection"
    /\ lastCall[1].before # <<>>
    /\ lastCall[1].before[1].blocked
    /\ lastCall[1].ip \notin DOMAIN limits


\* C25: every stored bucket of the flood token bucket has
\* 0 <= tokens <= capacity, whatever the interleaving of Take, GetTokens,
\* the refill and the cleanup.
C25_BucketTokensInRange ==
    \A key \in DOMAIN tokens : 0 <= tokens[key].tokens /\ tokens[key].tokens <= capacity

\* Two GetTokens calls are inside refillBucket on the same bucket, one about
\* to store the sum it computed from a count the other has since replaced.
C25_Witness ==
    /\ getters[1].pc = "store"
    /\ getters[2].pc \in {"stamp", "return"}
    /\ getters[1].ip = getters[2].ip
    /\ getters[2].newTokens > 0
    /\ capacity > 1


\* C26: RemoveConnection for an IP without an entry leaves the connection map
\* as it was, and no stored entry ever has a count below one.
C26_RemoveWithoutEntryIsNoOp ==
    /\ (lastCall # <<>> /\ lastCall[1].fn = "RemoveConnection"
           /\ lastCall[1].ip \notin DOMAIN lastCall[1].before) =>
          lastCall[1].after = lastCall[1].before
    /\ \A ip \in DOMAIN connections : connections[ip].count >= 1

\* RemoveConnection was called for an IP without an entry while another IP
\* holds one.
C26_Witness ==
    /\ lastCall # <<>>
    /\ lastCall[1].fn = "RemoveConnection"
    /\ lastCall[1].ip \notin DOMAIN lastCall[1].before
    /\ lastCall[1].before # EmptyMap
    /\ connections = lastCall[1].before


\* C27: a connection that was sent a Quote had sent a Solution carrying the
\* nonce and the prefix of the challenge issued on that connection.
C27_QuoteOnlyForOwnChallenge ==
    \A c \in Slots :
        (\E i \in 1..Len(conns[c].frames) : conns[c].frames[i] = "Quote") => conns[c].bound

\* The same for connections whose own challenge is the stored one of its
\* nonce when the Quote is sent: no nonce collision is needed to fail C27.
QuoteForOwnStoredChallenge ==
    [][ \A c \in Slots :
           (/\ conns[c].pc = "read"
            /\ conns[c].chal[1].nonce \in DOMAIN challenges
            /\ challenges[conns[c].chal[1].nonce] = conns[c].chal[1]
            /\ \E i \in 1..Len(conns'[c].frames) : conns'[c].frames[i] = "Quote")
           => conns'[c].bound ]_vars


\* The open connections of an IP that hold a slot of the per-IP counter: those
\* that passed conLimiter.AllowConnection and are still being admitted, and
\* those in a handler that has not yet run RemoveConnection.
SlotHolders(ip) ==
    { c \in Slots : /\ conns[c].addr.ip = ip
                    /\ \/ InHandler(c)
                       \/ conns[c].pc = "admit" /\ "slot" \in conns[c].used }

\* C28: for an IP with no TTL reset or eviction so far, the count of the
\* per-IP connection counter equals the number of its open connections that
\* hold a slot (so the entry is absent when there is none): every slot is
\* released when its connection terminates.
C28_SlotsReleased ==
    \A ip \in IPs \ ttlHit :
        (IF ip \in DOMAIN connections THEN connections[ip].count ELSE 0)
            = Cardinality(SlotHolders(ip))

\* The same for connections that reach a handler only: the deferred
\* RemoveConnection releases each reserved slot exactly once.
HandledSlotsReleased ==
    [][ \A c \in Slots :
           (conns[c].pc = "defer3" /\ conns'[c].pc = "closed"
               /\ conns[c].addr.ip \notin ttlHit
               /\ conns[c].addr.ip \in DOMAIN connections) =>
              (IF conns[c].addr.ip \in DOMAIN connections'
               THEN connections'[conns[c].addr.ip].count ELSE 0)
                  = connections[conns[c].addr.ip].count - 1 ]_vars


\* C29: a direct VerifySolution call leaves the challenge store and the
\* deletion timers as they were, and a call that repeats the payload of the
\* call before it, which answered true, answers true again when it is made
\* before the expiresAt of the record that verified (the nonce issued once).
C29_VerifyKeepsChallenge ==
    [][ (lastVerify' # lastVerify /\ lastVerify' # << >>) =>
           /\ challenges' = challenges
           /\ timers' = timers
           /\ ( /\ lastVerify'[1].replay
                /\ now < lastVerify[1].record[1].expiresAt
                /\ Cardinality({ d \in issued :
                                   d.nonce = lastVerify'[1].solution.nonce }) = 1 )
              => lastVerify'[1].ok ]_vars

\* A valid payload was verified and the same payload was verified again
\* before the expiresAt of its challenge.
C29_Witness ==
    /\ lastVerify # << >>
    /\ lastVerify[1].replay
    /\ lastVerify[1].ok
    /\ lastVerify[1].record # << >>
    /\ now < lastVerify[1].record[1].expiresAt

\* The replay is refused once the record's expiresAt has passed or the timed
\* deletion has run.
ReplayAfterExpiryFails ==
    /\ lastVerify # << >>
    /\ lastVerify[1].replay
    /\ ~lastVerify[1].ok


\* C30: once Shutdown has returned nil no handler is inside handleConnection:
\* none was left running and none is started afterwards for a connection the
\* accept loop took before the listener was closed.
C30_NoHandlerAfterShutdown ==
    shut.pc = "nil" => \A c \in Slots : conns[c].pc \notin {"handle", "read"}

\* Shutdown returned nil with no handler in flight and with a connection still
\* between Accept and s.activeConns.Add(1).
ShutdownNilDuringAdmission ==
    /\ shut.pc = "nil"
    /\ shut.inflight = 0
    /\ \E c \in Slots : conns[c].pc = "admit"


\* C31: RegisterFailure raises the count of the address by one and sets
\* lastFail to the time of the call; blockedAt is set to that time by the call
\* on which the count reaches MaxFailedAttempts and is left as it was by
\* every other call, those made with the count already at the threshold
\* included.
C31_BlockedAtWrittenOnce ==
    (lastCall # << >> /\ lastCall[1].fn = "RegisterFailure") =>
        LET c == lastCall[1]
            old == IF c.before = << >> THEN NoAttempts ELSE c.before[1]
            new == c.after[1]
        IN /\ new.count = old.count + 1
           /\ new.lastFail = c.at
           /\ new.blockedAt = IF new.count = MaxFailedAttempts THEN c.at
                              ELSE old.blockedAt

\* The part of C31 about count and lastFail, and about the call that reaches
\* the threshold.
RegisterFailureCounts ==
    (lastCall # << >> /\ lastCall[1].fn = "RegisterFailure") =>
        LET c == lastCall[1]
            old == IF c.before = << >> THEN NoAttempts ELSE c.before[1]
            new == c.after[1]
        IN /\ new.count = old.count + 1
           /\ new.lastFail = c.at
           /\ new.count < MaxFailedAttempts => new.blockedAt = old.blockedAt
           /\ new.count >= MaxFailedAttempts => new.blockedAt = c.at


\* C32: IsBlocked answers true exactly when the address has an entry whose
\* count is at least MaxFailedAttempts and less than FailedBlockTime has
\* passed since its blockedAt; so an address with fewer failures is never
\* blocked, an address over the threshold is blocked while the block time
\* runs, and it is unblocked once the block time has elapsed.  Neither the
\* cleanup goroutine nor IsBlocked removes an entry that is still blocked.
C32_IsBlockedIff ==
    /\ (lastCall # << >> /\ lastCall[1].fn = "IsBlocked") =>
          LET c == lastCall[1] IN
          c.blocked <=> /\ c.before # << >>
                        /\ c.before[1].count >= MaxFailedAttempts
                        /\ c.at - c.before[1].blockedAt < FailedBlockTime
    /\ \A addr \in Addrs :
          LET e == AttemptInfo(failed, addr) IN
          /\ (e = << >> \/ e[1].count < MaxFailedAttempts) =>
                ~IsBlocked(failed, addr, now).blocked
          /\ (e # << >> /\ e[1].count >= MaxFailedAttempts
                /\ now - e[1].blockedAt >= FailedBlockTime) =>
                ~IsBlocked(failed, addr, now).blocked
    /\ (lastCall # << >> /\ lastCall[1].fn = "RegisterFailure"
          /\ lastCall[1].after[1].count >= MaxFailedAttempts
          /\ now - lastCall[1].at < FailedBlockTime) =>
          IsBlocked(failed, lastCall[1].addr, now).blocked

\* IsBlocked was asked about an address over the threshold once its block
\* time had elapsed, and answered false.
C32_Witness ==
    /\ lastCall # << >>
    /\ lastCall[1].fn = "IsBlocked"
    /\ ~lastCall[1].blocked
    /\ lastCall[1].before # << >>
    /\ lastCall[1].before[1].count >= MaxFailedAttempts
    /\ lastCall[1].at - lastCall[1].before[1].blockedAt = FailedBlockTime

\* IsBlocked was asked about an address over the threshold within its block
\* time, and answered true.
IsBlockedAnsweredTrue ==
    /\ lastCall # << >>
    /\ lastCall[1].fn = "IsBlocked"
    /\ lastCall[1].blocked


\* C33: with the refill and the cleanup routine running, once the cleanup has
\* run at a time more than TokenCleanupInterval after the last Take, the
\* bucket that Take was made on is gone from the map.
C33_IdleBucketEvicted ==
    (lastCall # << >> /\ lastCall[1].fn = "Take") =>
        LET lastCleanup == tickers.cleanup - TokenCleanupInterval IN
        (lastCleanup - lastCall[1].at > TokenCleanupInterval) =>
            lastCall[1].ip \notin DOMAIN tokens

\* The same when refillAll adds no token in the meantime (a fill rate of less
\* than one token per cleanup interval).
IdleBucketEvictedUnlessRefilled ==
    (lastCall # << >> /\ lastCall[1].fn = "Take") =>
        LET lastCleanup == tickers.cleanup - TokenCleanupInterval
            ip == lastCall[1].ip
        IN (lastCleanup - lastCall[1].at > TokenCleanupInterval) =>
              \/ ip \notin DOMAIN tokens
              \/ tokens[ip].lastUpdate > lastCall[1].at

\* A bucket was evicted after its key was idle: it was never refilled.
IdleBucketGone ==
    /\ lastCall # << >>
    /\ lastCall[1].fn = "Take"
    /\ tickers.cleanup - TokenCleanupInterval - lastCall[1].at > TokenCleanupInterval
    /\ lastCall[1].ip \notin DOMAIN tokens


\* C34: for the request-rate limiter, on every AllowConnection call: the
\* tokens of an entry are set back to Burst, and lastReset to the time of the
\* call, only when the entry is not blocked and more than the refill window
\* has passed since lastReset; a call on an unblocked entry that has no token
\* then raises attempts by one and returns false, and any other call leaves
\* attempts alone; the entry is blocked from the call on which attempts first
\* exceeds twice the burst.  A blocked entry is left exactly as it is until
\* the cleanup removes it, the cleanup removes an entry only when its
\* lastReset is older than the ttl, and a call that finds no entry starts from
\* Burst tokens.
C34_RateLimiterBlocking ==
    /\ [][ lastCall' # lastCall =>
            LET c == lastCall'[1]
                old == IF c.before = << >>
                       THEN [tokens |-> Burst, lastReset |-> c.at,
                             blocked |-> FALSE, attempts |-> 0]
                       ELSE c.before[1]
                new == limits'[c.ip]
                reset == ~old.blocked /\ c.at - old.lastReset > RateWindow
                avail == IF reset THEN Burst ELSE old.tokens
            IN /\ new.lastReset = IF reset THEN c.at ELSE old.lastReset
               /\ c.ok <=> (~old.blocked /\ avail > 0)
               /\ new.tokens = IF c.ok THEN avail - 1
                               ELSE IF old.blocked THEN old.tokens ELSE 0
               /\ new.attempts = IF ~old.blocked /\ avail = 0 THEN old.attempts + 1
                                 ELSE old.attempts
               /\ new.blocked <=> \/ old.blocked
                                  \/ new.attempts > old.attempts /\ new.attempts > 2 * Burst
          ]_vars
    /\ [][ \A ip \in DOMAIN limits :
             /\ (limits[ip].blocked /\ ip \in DOMAIN limits') => limits'[ip] = limits[ip]
             /\ ip \notin DOMAIN limits' => now - limits[ip].lastReset > RateTTL ]_vars

\* The call on which attempts first exceeds twice the burst has blocked the
\* entry.
C34_Witness ==
    /\ lastCall # << >>
    /\ lastCall[1].fn = "AllowConnection"
    /\ lastCall[1].before # << >>
    /\ ~lastCall[1].before[1].blocked
    /\ lastCall[1].before[1].attempts = 2 * Burst
    /\ lastCall[1].ip \in DOMAIN limits
    /\ limits[lastCall[1].ip].blocked

\* A call made after the ttl has run out finds no entry and is let in.
AllowedAgainAfterEviction ==
    /\ lastCall # << >>
    /\ lastCall[1].fn = "AllowConnection"
    /\ lastCall[1].before = << >>
    /\ lastCall[1].at > RateTTL
    /\ lastCall[1].ok


\* C35: a tick of the difficulty controller that observes n live connections
\* publishes InitialDifficulty + 2 if n > 0.8 * MaxConnections, else
\* InitialDifficulty + 1 if n > 0.5 * MaxConnections, else InitialDifficulty,
\* the thresholds taken as real numbers (10 * n > 8 * max, 10 * n > 5 * max);
\* the value published before has no part in it.
C35_DifficultyByLoad ==
    (lastCall # << >> /\ lastCall[1].fn = "adjustDifficulty") =>
        LET c == lastCall[1]
            n == c.currentConns
            max == c.MaxConnections
        IN difficulty = IF 10 * n > 8 * max THEN c.InitialDifficulty + 2
                        ELSE IF 10 * n > 5 * max THEN c.InitialDifficulty + 1
                        ELSE c.InitialDifficulty

\* A tick at low load after a tick at high load: the difficulty is back at
\* InitialDifficulty, with a MaxConnections that 10 does not divide evenly.
C35_Witness ==
    /\ lastCall # << >>
    /\ lastCall[1].fn = "adjustDifficulty"
    /\ lastCall[1].MaxConnections = 3
    /\ lastCall[1].currentConns = 1
    /\ lastCall[1].oldDifficulty = lastCall[1].InitialDifficulty + 2
    /\ difficulty = lastCall[1].InitialDifficulty


WholeFrameCase ==
    /\ codec # <<>>
    /\ codec[1].op = "read"
    /\ Len(codec[1].data) >= HeaderSize
    /\ Unmarshal(SubSeq(codec[1].data, 1, HeaderSize)).err = "nil"
    /\ Len(codec[1].data) = HeaderSize + Uint32(SubSeq(codec[1].data, 5, 8))

\* C37: readMessage on a connection that delivers a whole frame returns the
\* frame's message with all of its payload, in however many pieces the
\* payload arrives at the socket.
C37_SplitFrameReadWhole ==
    WholeFrameCase =>
        /\ codec[1].dec.err = "nil"
        /\ codec[1].dec.msg[1].Payload =
              SubSeq(codec[1].data, HeaderSize + 1, Len(codec[1].data))

\* The same when the payload Read returns every byte the header declares.
FrameInOneReadIsReadWhole ==
    (WholeFrameCase /\ codec[1].n >= Uint32(SubSeq(codec[1].data, 5, 8))) =>
        /\ codec[1].dec.err = "nil"
        /\ codec[1].dec.msg[1].Payload =
              SubSeq(codec[1].data, HeaderSize + 1, Len(codec[1].data))


\* C38: every step that changes the flood bucket's map or a field of one of
\* its buckets is taken with the write lock held, that is with no GetTokens
\* call inside its read-locked section: a call that holds only the read lock
\* writes nothing.
C38_MutationsUnderWriteLock ==
    [][ tokens' # tokens => NoReader ]_vars

\* The same for FailedAttempts.IsBlocked, which holds only the read lock: the
\* call leaves the entry of the address as it found it.
IsBlockedWritesNothing ==
    (lastCall # << >> /\ lastCall[1].fn = "IsBlocked") =>
        lastCall[1].after = lastCall[1].before

\* Two GetTokens calls hold the read lock together and both are about to write
\* to the same bucket.
ReadersRaceOnBucket ==
    /\ getters[1].pc \in {"store", "stamp"}
    /\ getters[2].pc \in {"store", "stamp"}
    /\ getters[1].ip = getters[2].ip


\* SolvePoW has returned a solution.
SolverReturnedSolution ==
    IF solver.pc = "returned"
    THEN solver.result.err = "nil" /\ solver.result.solution # <<>>
    ELSE FALSE

\* Every worker goroutine has returned, but for those that have run through
\* the candidates of the model and are searching on.
SolverWorkersStopped ==
    IF solver.pc = "idle" THEN FALSE
    ELSE \A k \in Workers :
            \/ solver.workers[k].pc = "done"
            \/ solver.workers[k].pc = "loop" /\ solver.workers[k].j > MaxCandidate

\* C39: once SolvePoW has returned a solution every worker goroutine
\* eventually returns, whether or not the context is ever cancelled: none
\* stays blocked in its send on resultCh.
C39_WorkersStopAfterSolution ==
    SolverReturnedSolution ~> SolverWorkersStopped

\* SolvePoW has returned a solution, its context is not cancelled, the buffer
\* of resultCh is full and a worker is blocked sending its own solution.
WorkerBlockedOnSend ==
    /\ SolverReturnedSolution
    /\ ~solver.cancelled
    /\ Len(solver.resultCh) = 1
    /\ \E k \in Workers : solver.workers[k].pc = "send"

\* With the context cancelled the workers do return after the solution.
WorkersStopAfterSolutionWhenCancelled ==
    (SolverReturnedSolution /\ SolverCancelled) ~> SolverWorkersDone


\* C40: GetTokens for a key without a bucket returns the capacity and leaves
\* the map as it is.  Take for such a key creates the bucket at the capacity
\* and takes one token from it; Take on a bucket to which no token has
\* accrued since its lastUpdate returns true and takes one token while the
\* bucket has one, and returns false leaving the count at 0 when it has none:
\* so of the Take calls made in one instant on a new key the first capacity
\* ones return true and the next returns false.
C40_LazyBucketAtCapacity ==
    /\ [](( lastCall # << >> /\ lastCall[1].fn = "Take" ) =>
            LET c == lastCall[1] IN
            IF c.before = << >>
            THEN /\ c.ok
                 /\ c.after = [tokens |-> capacity - 1, lastUpdate |-> c.at]
            ELSE LET b == c.before[1]
                     accrued == ((c.at - b.lastUpdate) * fillRate.num) \div fillRate.den
                 IN accrued = 0 =>
                       /\ c.ok <=> b.tokens > 0
                       /\ c.after = [b EXCEPT !.tokens = IF b.tokens > 0 THEN @ - 1 ELSE 0])
    /\ [][ ( /\ lastCall' # lastCall
             /\ lastCall'[1].fn = "GetTokens"
             /\ lastCall'[1].ip \notin DOMAIN tokens ) =>
              /\ lastCall'[1].tokens = capacity
              /\ tokens' = tokens ]_vars

\* In a bucket of capacity 2 created in this instant both tokens were taken
\* and the next Take has returned false.
C40_Witness ==
    /\ lastCall # << >>
    /\ lastCall[1].fn = "Take"
    /\ ~lastCall[1].ok
    /\ capacity = 2
    /\ lastCall[1].at = 0
    /\ lastCall[1].after = [tokens |-> 0, lastUpdate |-> 0]

\* GetTokens has answered the capacity for a key that has no bucket.
GetTokensWithoutBucket ==
    /\ lastCall # << >>
    /\ lastCall[1].fn = "GetTokens"
    /\ lastCall[1].ip \notin DOMAIN tokens
    /\ lastCall[1].tokens = capacity

====
